---------------------------- MODULE Spec2Model ----------------------------
(***************************************************************************)
(* State-machine model of the classroom session backend (Django REST views *)
(* in lecture/views.py, the Channels consumer in lecture/consumer.py and   *)
(* the Celery task in lecture/tasks.py).                                   *)
(*                                                                         *)
(* The program is modelled as four subsystems that share no record:        *)
(*   - questions: start_question_intent, submit_question_text,             *)
(*     request_ai_answer, forward_question_to_professor, like_question;    *)
(*   - feedback: submit_feedback with its 3 second debounce;               *)
(*   - hub: SessionConsumer connect / disconnect and the Redis presence    *)
(*     set;                                                                *)
(*   - enrichment: mark_important and generate_important_summary_task.     *)
(* A request handler is a sequence of steps, one per database statement    *)
(* or channel-layer send, so that handlers of different requests           *)
(* interleave as they do between worker processes.  Text is a sequence of  *)
(* one-character strings so that strip() and the note join are computed.   *)
(***************************************************************************)
EXTENDS Integers, Sequences, FiniteSets, TLC

VARIABLES
    session_active, \* Session.is_active of every stored Session row
    questions,      \* Question table: sequence of rows, id = index
    likes,          \* QuestionLike table: sequence of rows
    qreq,           \* HTTP requests of the question views, with their locals
    sent,           \* channel_layer.group_send calls of the question views, in order
    received,       \* what a client read from the store when a message reached it
    now,            \* the clock timezone.now() reads, in seconds
    feedback,       \* FeedbackEvent table: sequence of rows
    freq,           \* HTTP requests of submit_feedback, with their locals
    fsent,          \* group_send calls of submit_feedback, in order
    conns,          \* SessionConsumer instances, with their handler's position
    teachers,       \* Redis sets "session:<id>:teachers" of channel names
    groups,         \* channel-layer groups: pairs of group name and channel
    hsent,          \* group_send calls of the consumers, per group, in order
    frames,         \* frames sent down each connection, in order
    inbound,        \* frames, other than ping, that each client has sent
    redis_up,       \* the Redis server answers the commands of the consumers
    cursor,         \* how many messages of its group each consumer is past
    pending,        \* ping frames of each connection that wait for receive
    moments,        \* ImportantMoment table: sequence of rows, id = index
    mreq,           \* HTTP requests of mark_important, with their locals
    esent,          \* group_send calls of mark_important, in order
    queue,          \* Celery messages of generate_important_summary_task
    runs,           \* executions of generate_important_summary_task
    note_writes     \* UPDATE statements of the task, in order

qvars == <<questions, likes, qreq, sent, received>>

fvars == <<now, feedback, freq, fsent>>

hvars ==
    <<conns, teachers, groups, hsent, frames, cursor, pending, inbound, redis_up>>

evars == <<moments, mreq, esent, queue, runs, note_writes>>

\* what the question views leave alone; their group_send calls go to the
\* channel layer
qframe ==
    <<session_active, fvars, conns, teachers, groups, frames, cursor, pending,
      inbound, redis_up, evars>>

\* what submit_feedback leaves alone
fframe ==
    <<session_active, qvars, conns, teachers, groups, frames, cursor, pending,
      inbound, redis_up, evars>>

\* what the consumers leave alone; only the handler of the clients' other
\* frames takes frames from `inbound`, and Redis goes down and comes back by
\* itself
hframe == <<session_active, qvars, fvars, evars, inbound, redis_up>>

\* what mark_important and the task leave alone
eframe == <<session_active, qvars, fvars, conns, teachers, groups, frames,
            cursor, pending, inbound, redis_up>>

-----------------------------------------------------------------------------
(* Bounds of the model *)

\* requests the question views receive in one behaviour
MaxReqs == 2

\* submit_feedback requests in one behaviour
MaxFeedbackReqs == 3

\* the clock stops here
MaxTime == 5

\* WebSocket connections in one behaviour
MaxConns == 2

\* ping frames that are answered or wait for an answer in one behaviour
MaxPings == 1

\* frames other than ping that the clients send in one behaviour
MaxFrames == 1

\* mark_important requests in one behaviour
MaxMarkReqs == 1

\* upload_question_capture requests in one behaviour
MaxCaptures == 1

\* executions of generate_important_summary_task in one behaviour
MaxRuns == 2

-----------------------------------------------------------------------------
(* Text *)

Empty == <<>>

SP == " "

RECURSIVE lstrip(_)
lstrip(s) == IF s # Empty /\ Head(s) = SP THEN lstrip(Tail(s)) ELSE s

RECURSIVE rstrip(_)
rstrip(s) ==
    IF s # Empty /\ s[Len(s)] = SP THEN rstrip(SubSeq(s, 1, Len(s) - 1)) ELSE s

\* str.strip()
strip(s) == rstrip(lstrip(s))

\* Python truthiness of a str or None value (None is modelled as the empty text
\* wherever the code only tests truthiness)
truthy(s) == s # Empty

-----------------------------------------------------------------------------
(* Sessions, devices, groups *)

Sessions == {"s1"}

\* a session id that no Session row has
UnknownSession == "s0"

SessionArgs == Sessions \cup {UnknownSession}

\* X-Device-Hash header values; NoHeader is a request without the header
NoHeader == "none"

Headers == {NoHeader, "d1"}

\* mutant of get_device_hash: a missing header is not replaced
get_device_hash_as_sent(h) == h

get_device_hash(h) == IF h = NoHeader THEN "anonymous" ELSE h

\* mutant of get_session_group_name: one group for both roles of a session
get_session_group_name_no_role(session_id, role) ==
    <<"session", session_id, "all">>

get_session_group_name(session_id, role) == <<"session", session_id, role>>

\* get_object_or_404(Session, id=session_id, is_active=True)
session_found(session_id) ==
    session_id \in DOMAIN session_active /\ session_active[session_id]

-----------------------------------------------------------------------------
(* The question views *)

Reqs == 1..MaxReqs

NoObj == [none |-> TRUE]

\* request bodies the model submits
OriginalTexts == {Empty, <<"q", SP>>}

Overrides == {Empty, <<"o", SP>>}

\* what the LLM call does: it raises (Fail) or returns a text
Fail == <<"FAIL">>

CleanResponses == {Fail, <<"c", SP>>}

AnswerResponses == {Fail, <<"a">>}

\* the fixed message ai_answer_question returns when the collaborator raises
Apology == <<"!">>

IdleReq ==
    [op |-> "none", pc |-> "idle", session_id |-> UnknownSession,
     question_id |-> 0, header |-> NoHeader,
     original_text |-> Empty, override_cleaned |-> Empty,
     question |-> NoObj, cleaned_for_answer |-> Empty,
     created |-> FALSE, integrity_error |-> FALSE, like_count |-> 0,
     resp |-> 0]

StatusRank(st) ==
    CASE st = "INTENT" -> 0
      [] st = "TEXT_SUBMITTED" -> 1
      [] st = "AI_ANSWERED" -> 2
      [] st = "FORWARDED" -> 3

\* Question.objects.create(session, device_hash, original_text="", status=INTENT)
NewQuestion(session_id, device_hash) ==
    [session |-> session_id, device_hash |-> device_hash,
     original_text |-> Empty, cleaned_text |-> Empty, ai_answer |-> Empty,
     forwarded_to_professor |-> FALSE, status |-> "INTENT",
     created_at |-> now]

\* ids a request may name: the stored ones and one that is not stored
QuestionArgs == 1..(Len(questions) + 1)

question_exists(id) == id \in DOMAIN questions

\* one group_send: the message as the channel layer gets it, tagged with the
\* request that sent it and that request's X-Device-Hash header
Msg(group, type, r, question_id, text, count) ==
    [group |-> group, type |-> type, req |-> r, header |-> qreq[r].header,
     question_id |-> question_id, cleaned_text |-> text, like_count |-> count]

\* channel_layer.group_send(group, message): the message is logged and the
\* channel layer holds it for the channels that are in the group now
group_send_message(group, message) ==
    /\ sent' = Append(sent, message)
    /\ hsent' = [hsent EXCEPT ![group] = Append(@, message)]

group_send(group, type, r, question_id, text, count) ==
    group_send_message(group, Msg(group, type, r, question_id, text, count))

\* a request slot is taken in order, so that permutations of the slots are not
\* explored twice
Arrives(r) ==
    /\ qreq[r].pc = "idle"
    /\ \A p \in Reqs : p < r => qreq[p].pc # "idle"

\* the view of request record `req` returns `code`; its locals go out of scope
Return(req, code) ==
    [IdleReq EXCEPT !.pc = "done", !.resp = code, !.op = req.op,
                    !.session_id = req.session_id,
                    !.question_id = req.question_id,
                    !.header = req.header,
                    !.original_text = req.original_text,
                    !.override_cleaned = req.override_cleaned,
                    !.created = req.created,
                    !.integrity_error = req.integrity_error]

Finish(r, code) == Return(qreq[r], code)

\* a response that the client has got and the server has forgotten
Gone == [IdleReq EXCEPT !.pc = "gone"]

\* request r is now `req`; the responses returned before it arrived are
\* forgotten, those of requests still in progress are to come
Accept(r, req) ==
    qreq' = [p \in Reqs |-> IF p = r THEN req
                            ELSE IF qreq[p].pc = "done" THEN Gone
                            ELSE qreq[p]]

\* LLMClient.call: raises on an API error and on an empty response, else
\* returns the stripped text
llm_call(response) ==
    IF response = Fail \/ strip(response) = Empty THEN Fail ELSE strip(response)

\* clean_question: ValueError on a blank question, RuntimeError when the call
\* fails
clean_question(question, response) ==
    IF strip(question) = Empty THEN Fail ELSE llm_call(response)

ai_clean_question(original_text, response) ==
    LET cleaned == clean_question(original_text, response)
    IN  IF cleaned = Fail THEN strip(original_text) ELSE cleaned

answer_question(question, response) ==
    IF strip(question) = Empty THEN Fail ELSE llm_call(response)

ai_answer_question(cleaned_text, response) ==
    LET answer == answer_question(cleaned_text, response)
    IN  IF answer = Fail THEN Apology ELSE answer

\* the cleaned text request_ai_answer and forward_question_to_professor use
cleaned_for_answer(override_cleaned, question) ==
    IF truthy(override_cleaned) THEN strip(override_cleaned)
    ELSE IF truthy(question.cleaned_text) THEN question.cleaned_text
    ELSE question.original_text

(* start_question_intent *)

start_question_intent(r, session_id, h) ==
    /\ Arrives(r)
    /\ IF ~session_found(session_id)
       THEN /\ Accept(r, [IdleReq EXCEPT !.op = "intent", !.header = h,
                                          !.session_id = session_id,
                                          !.pc = "done", !.resp = 404])
            /\ UNCHANGED questions
       ELSE /\ questions' =
                   Append(questions, NewQuestion(session_id, get_device_hash(h)))
            /\ Accept(r, [IdleReq EXCEPT !.op = "intent", !.header = h,
                                          !.session_id = session_id,
                                          !.question_id = Len(questions) + 1,
                                          !.pc = "intent_send"])
    /\ UNCHANGED <<likes, sent, hsent, received, qframe>>

\* mutant of start_question_intent_send: the event goes to the student group
start_question_intent_send_student(r) ==
    /\ qreq[r].pc = "intent_send"
    /\ group_send_message(
           get_session_group_name(qreq[r].session_id, "student"),
           Msg(get_session_group_name(qreq[r].session_id, "student"),
               "question_intent", r, qreq[r].question_id, Empty, 0) @@
           [created_at |-> questions[qreq[r].question_id].created_at])
    /\ qreq' = [qreq EXCEPT ![r] = Finish(r, 201)]
    /\ UNCHANGED <<questions, likes, received, qframe>>

start_question_intent_send(r) ==
    /\ qreq[r].pc = "intent_send"
    /\ group_send_message(
           get_session_group_name(qreq[r].session_id, "teacher"),
           Msg(get_session_group_name(qreq[r].session_id, "teacher"),
               "question_intent", r, qreq[r].question_id, Empty, 0) @@
           [created_at |-> questions[qreq[r].question_id].created_at])
    /\ qreq' = [qreq EXCEPT ![r] = Finish(r, 201)]
    /\ UNCHANGED <<questions, likes, received, qframe>>

(* submit_question_text *)

\* mutant of device_mismatch: the ownership test is missing
device_mismatch_never(question, device_hash) == FALSE

\* the ownership test of submit_question_text and request_ai_answer
device_mismatch(question, device_hash) == question.device_hash # device_hash

submit_question_text(r, question_id, h, original_text) ==
    /\ Arrives(r)
    /\ LET req == [IdleReq EXCEPT !.op = "text", !.header = h,
                                  !.question_id = question_id,
                                  !.original_text = original_text]
       IN  Accept(r,
             IF ~question_exists(question_id)
             THEN [req EXCEPT !.pc = "done", !.resp = 404]
             ELSE IF ~truthy(original_text)
             THEN [req EXCEPT !.pc = "done", !.resp = 400]
             ELSE IF device_mismatch(questions[question_id], get_device_hash(h))
             THEN [req EXCEPT !.pc = "done", !.resp = 403]
             ELSE [req EXCEPT !.pc = "text_save",
                              !.question = [questions[question_id] EXCEPT
                                              !.original_text = original_text]])
    /\ UNCHANGED <<questions, likes, sent, hsent, received, qframe>>

\* mutant of submit_question_text_save: question.save() of all the fields of
\* the object that the view loaded
submit_question_text_save_all(r, response) ==
    /\ qreq[r].pc = "text_save"
    /\ LET cleaned == ai_clean_question(qreq[r].original_text, response)
       IN  questions' = [questions EXCEPT ![qreq[r].question_id] =
               [qreq[r].question EXCEPT !.cleaned_text = cleaned,
                                        !.status = "TEXT_SUBMITTED"]]
    /\ qreq' = [qreq EXCEPT ![r] = Finish(r, 200)]
    /\ UNCHANGED <<likes, sent, hsent, received, qframe>>

\* question.save(update_fields=["original_text", "cleaned_text", "status"])
submit_question_text_save(r, response) ==
    /\ qreq[r].pc = "text_save"
    /\ LET cleaned == ai_clean_question(qreq[r].original_text, response)
       IN  questions' = [questions EXCEPT ![qreq[r].question_id] =
               [@ EXCEPT !.original_text = qreq[r].question.original_text,
                         !.cleaned_text = cleaned,
                         !.status = "TEXT_SUBMITTED"]]
    /\ qreq' = [qreq EXCEPT ![r] = Finish(r, 200)]
    /\ UNCHANGED <<likes, sent, hsent, received, qframe>>

(* request_ai_answer *)

\* mutant of request_ai_answer: a question without text is refused
request_ai_answer_after_text(r, question_id, h, override_cleaned) ==
    /\ Arrives(r)
    /\ LET req == [IdleReq EXCEPT !.op = "ai", !.header = h,
                                  !.question_id = question_id,
                                  !.override_cleaned = override_cleaned]
       IN  Accept(r,
             IF ~question_exists(question_id)
             THEN [req EXCEPT !.pc = "done", !.resp = 404]
             ELSE IF device_mismatch(questions[question_id], get_device_hash(h))
             THEN [req EXCEPT !.pc = "done", !.resp = 403]
             ELSE IF questions[question_id].status = "INTENT"
             THEN [req EXCEPT !.pc = "done", !.resp = 400]
             ELSE [req EXCEPT !.pc = "ai_save",
                              !.question = questions[question_id],
                              !.cleaned_for_answer =
                                  cleaned_for_answer(override_cleaned,
                                                     questions[question_id])])
    /\ UNCHANGED <<questions, likes, sent, hsent, received, qframe>>

request_ai_answer(r, question_id, h, override_cleaned) ==
    /\ Arrives(r)
    /\ LET req == [IdleReq EXCEPT !.op = "ai", !.header = h,
                                  !.question_id = question_id,
                                  !.override_cleaned = override_cleaned]
       IN  Accept(r,
             IF ~question_exists(question_id)
             THEN [req EXCEPT !.pc = "done", !.resp = 404]
             ELSE IF device_mismatch(questions[question_id], get_device_hash(h))
             THEN [req EXCEPT !.pc = "done", !.resp = 403]
             ELSE [req EXCEPT !.pc = "ai_save",
                              !.question = questions[question_id],
                              !.cleaned_for_answer =
                                  cleaned_for_answer(override_cleaned,
                                                     questions[question_id])])
    /\ UNCHANGED <<questions, likes, sent, hsent, received, qframe>>

\* question.save(update_fields=["cleaned_text", "ai_answer", "status"])
request_ai_answer_save(r, response) ==
    /\ qreq[r].pc = "ai_save"
    /\ LET answer == ai_answer_question(qreq[r].cleaned_for_answer, response)
       IN  questions' = [questions EXCEPT ![qreq[r].question_id] =
               [@ EXCEPT !.cleaned_text = qreq[r].cleaned_for_answer,
                         !.ai_answer = answer,
                         !.status = "AI_ANSWERED"]]
    /\ qreq' = [qreq EXCEPT ![r] = Finish(r, 200)]
    /\ UNCHANGED <<likes, sent, hsent, received, qframe>>

(* A collaborator that does not answer *)

\* LLMClient.call for request r: model.generate_content is called without a
\* timeout and the collaborator never responds, so the call does not return
generate_content_hangs(r) ==
    /\ qreq[r].pc \in {"text_save", "ai_save"}
    /\ qreq' = [qreq EXCEPT ![r].pc = "in_call"]
    /\ UNCHANGED <<questions, likes, sent, hsent, received, qframe>>

(* forward_question_to_professor *)

\* mutant of forward_fields: the status assignment is missing
forward_fields_flag_only(question, override_cleaned) ==
    [question EXCEPT
        !.cleaned_text = IF truthy(override_cleaned)
                         THEN strip(override_cleaned)
                         ELSE @,
        !.forwarded_to_professor = TRUE]

\* the fields forward_question_to_professor sets on its copy of the row before
\* question.save()
forward_fields(question, override_cleaned) ==
    [question EXCEPT
        !.cleaned_text = IF truthy(override_cleaned)
                         THEN cleaned_for_answer(override_cleaned, question)
                         ELSE @,
        !.forwarded_to_professor = TRUE,
        !.status = "FORWARDED"]

\* mutant of forward_question_to_professor: with the ownership test of the
\* other two views
forward_question_to_professor_owner(r, question_id, h, override_cleaned) ==
    /\ Arrives(r)
    /\ LET req == [IdleReq EXCEPT !.op = "forward", !.header = h,
                                  !.question_id = question_id,
                                  !.override_cleaned = override_cleaned]
       IN  Accept(r,
             IF ~question_exists(question_id)
             THEN [req EXCEPT !.pc = "done", !.resp = 404]
             ELSE IF device_mismatch(questions[question_id], get_device_hash(h))
             THEN [req EXCEPT !.pc = "done", !.resp = 403]
             ELSE [req EXCEPT !.pc = "fwd_save",
                              !.question = forward_fields(questions[question_id],
                                                          override_cleaned),
                              !.cleaned_for_answer =
                                  cleaned_for_answer(override_cleaned,
                                                     questions[question_id])])
    /\ UNCHANGED <<questions, likes, sent, hsent, received, qframe>>

\* the view does not read the X-Device-Hash header of the request
forward_question_to_professor(r, question_id, h, override_cleaned) ==
    /\ Arrives(r)
    /\ LET req == [IdleReq EXCEPT !.op = "forward", !.header = h,
                                  !.question_id = question_id,
                                  !.override_cleaned = override_cleaned]
       IN  Accept(r,
             IF ~question_exists(question_id)
             THEN [req EXCEPT !.pc = "done", !.resp = 404]
             ELSE [req EXCEPT !.pc = "fwd_save",
                              !.question = forward_fields(questions[question_id],
                                                          override_cleaned),
                              !.cleaned_for_answer =
                                  cleaned_for_answer(override_cleaned,
                                                     questions[question_id])])
    /\ UNCHANGED <<questions, likes, sent, hsent, received, qframe>>

\* question.save(): every column is written from the request's copy of the row
forward_question_save(r) ==
    /\ qreq[r].pc = "fwd_save"
    /\ questions' = [questions EXCEPT ![qreq[r].question_id] = qreq[r].question]
    /\ qreq' = [qreq EXCEPT ![r].pc = "fwd_send_teacher"]
    /\ UNCHANGED <<likes, sent, hsent, received, qframe>>

forward_question_send_teacher(r) ==
    /\ qreq[r].pc = "fwd_send_teacher"
    /\ group_send(get_session_group_name(qreq[r].question.session, "teacher"),
                  "new_question", r, qreq[r].question_id,
                  qreq[r].cleaned_for_answer, 0)
    /\ qreq' = [qreq EXCEPT ![r].pc = "fwd_send_student"]
    /\ UNCHANGED <<questions, likes, received, qframe>>

forward_question_send_student(r) ==
    /\ qreq[r].pc = "fwd_send_student"
    /\ group_send(get_session_group_name(qreq[r].question.session, "student"),
                  "new_question", r, qreq[r].question_id,
                  qreq[r].cleaned_for_answer, 0)
    /\ qreq' = [qreq EXCEPT ![r] = Finish(r, 200)]
    /\ UNCHANGED <<questions, likes, received, qframe>>

(* like_question *)

\* the QuestionLike table has a uniqueness constraint on (question, device_hash)
like_unique_constraint == TRUE

\* mutant of like_rows: the lookup leaves out the device
like_rows_any_device(question_id, device_hash) ==
    {i \in DOMAIN likes : likes[i].question = question_id}

\* the rows QuestionLike.objects.get_or_create(question, device_hash) looks for
like_rows(question_id, device_hash) ==
    {i \in DOMAIN likes : /\ likes[i].question = question_id
                          /\ likes[i].device_hash = device_hash}

\* question.likes.count()
likes_count(question_id) ==
    Cardinality({i \in DOMAIN likes : likes[i].question = question_id})

\* mutant of like_broadcasts: the broadcast is not guarded by `created`
like_broadcasts_always(created) == TRUE

\* "if created:" - whether like_question broadcasts
like_broadcasts(created) == created

\* like_question after get_or_create returned (like, created): the count and
\* the two sends follow only "if created", else the view returns 200
after_get_or_create(req, created) ==
    IF like_broadcasts(created)
    THEN [req EXCEPT !.created = created, !.pc = "like_count"]
    ELSE Return([req EXCEPT !.created = created], 200)

\* like_question up to the SELECT of QuestionLike.objects.get_or_create
like_question(r, question_id, h) ==
    /\ Arrives(r)
    /\ LET req == [IdleReq EXCEPT !.op = "like", !.header = h,
                                  !.question_id = question_id]
       IN  Accept(r,
             IF ~question_exists(question_id)
             THEN [req EXCEPT !.pc = "done", !.resp = 404]
             ELSE IF like_rows(question_id, get_device_hash(h)) # {}
             THEN after_get_or_create(
                      [req EXCEPT !.question = questions[question_id]], FALSE)
             ELSE [req EXCEPT !.question = questions[question_id],
                              !.pc = "like_create"])
    /\ UNCHANGED <<questions, likes, sent, hsent, received, qframe>>

\* the INSERT of get_or_create: under the uniqueness constraint an INSERT of a
\* pair that is stored by now raises IntegrityError, which get_or_create
\* answers with the stored row and created = False
like_question_create(r) ==
    /\ qreq[r].pc = "like_create"
    /\ LET device_hash == get_device_hash(qreq[r].header)
           created == ~(like_unique_constraint
                        /\ like_rows(qreq[r].question_id, device_hash) # {})
       IN  /\ likes' = IF created
                       THEN Append(likes, [question |-> qreq[r].question_id,
                                           device_hash |-> device_hash])
                       ELSE likes
           /\ qreq' = [qreq EXCEPT ![r] =
                  after_get_or_create([@ EXCEPT !.integrity_error = ~created],
                                      created)]
    /\ UNCHANGED <<questions, sent, hsent, received, qframe>>

like_question_count(r) ==
    /\ qreq[r].pc = "like_count"
    /\ qreq' = [qreq EXCEPT ![r].like_count = likes_count(qreq[r].question_id),
                            ![r].pc = "like_send_teacher"]
    /\ UNCHANGED <<questions, likes, sent, hsent, received, qframe>>

like_question_send_teacher(r) ==
    /\ qreq[r].pc = "like_send_teacher"
    /\ group_send(get_session_group_name(qreq[r].question.session, "teacher"),
                  "question_like_update", r, qreq[r].question_id, Empty,
                  qreq[r].like_count)
    /\ qreq' = [qreq EXCEPT ![r].pc = "like_send_student"]
    /\ UNCHANGED <<questions, likes, received, qframe>>

like_question_send_student(r) ==
    /\ qreq[r].pc = "like_send_student"
    /\ group_send(get_session_group_name(qreq[r].question.session, "student"),
                  "question_like_update", r, qreq[r].question_id, Empty,
                  qreq[r].like_count)
    /\ qreq' = [qreq EXCEPT ![r] = Finish(r, 200)]
    /\ UNCHANGED <<questions, likes, received, qframe>>

(* A channel layer that fails *)

\* where a question view is about to call group_send
SendPositions ==
    {"intent_send", "fwd_send_teacher", "fwd_send_student",
     "like_send_teacher", "like_send_student"}

\* mutant of group_send_raises: the view runs in a transaction that the
\* exception rolls back
group_send_raises_rolls_back(r) ==
    /\ qreq[r].pc \in SendPositions
    /\ qreq' = [qreq EXCEPT ![r] = Finish(r, 500)]
    /\ questions' = IF qreq[r].op = "intent"
                    THEN SubSeq(questions, 1, Len(questions) - 1)
                    ELSE questions
    /\ likes' = IF qreq[r].op = "like"
                THEN SubSeq(likes, 1, Len(likes) - 1)
                ELSE likes
    /\ UNCHANGED <<sent, hsent, received, qframe>>

\* group_send of a question view raises: the views catch nothing, so the
\* request ends with a server error; its writes were committed one by one
group_send_raises(r) ==
    /\ qreq[r].pc \in SendPositions
    /\ qreq' = [qreq EXCEPT ![r] = Finish(r, 500)]
    /\ UNCHANGED <<questions, likes, sent, hsent, received, qframe>>

-----------------------------------------------------------------------------
(* A client on the receiving end *)

\* a message of `sent` reaches an attached client (the consumer handler of its
\* type forwards it), and the client reads the stored state at that moment
receive(i) ==
    /\ i \in DOMAIN sent
    /\ \A o \in received : o.index # i
    /\ received' = received \cup
          {[index |-> i,
            type |-> sent[i].type,
            question_id |-> sent[i].question_id,
            like_count |-> sent[i].like_count,
            exists_read |-> question_exists(sent[i].question_id),
            status_read |-> questions[sent[i].question_id].status,
            likes_read |-> likes_count(sent[i].question_id)]}
    /\ UNCHANGED <<questions, likes, qreq, sent, hsent, qframe>>

-----------------------------------------------------------------------------
(* submit_feedback *)

\* seconds of the debounce window
DebounceWindow == 3

FeedbackTypes == {"OK", "HARD"}

\* feedback_type values a request may carry; "none" is a body without it
FeedbackTypeArgs == FeedbackTypes \cup {"none"}

FeedbackIdle ==
    [pc |-> "idle", session_id |-> UnknownSession, header |-> NoHeader,
     feedback_type |-> "none", resp |-> 0]

FeedbackReqs == 1..MaxFeedbackReqs

\* no feedback has been submitted
FeedbackEmpty ==
    /\ now = 0
    /\ feedback = <<>>
    /\ freq = [r \in FeedbackReqs |-> FeedbackIdle]
    /\ fsent = <<>>

\* FeedbackEvent.objects.filter(session, device_hash)
feedback_of(session_id, device_hash) ==
    {i \in DOMAIN feedback : /\ feedback[i].session = session_id
                             /\ feedback[i].device_hash = device_hash}

\* .order_by("-created_at").first(): a row with the greatest created_at
last_feedback(session_id, device_hash) ==
    CHOOSE i \in feedback_of(session_id, device_hash) :
        \A j \in feedback_of(session_id, device_hash) :
            feedback[j].created_at <= feedback[i].created_at

\* mutant of too_soon: the window is closed at 3 seconds
too_soon_inclusive(session_id, device_hash) ==
    /\ feedback_of(session_id, device_hash) # {}
    /\ now - feedback[last_feedback(session_id, device_hash)].created_at
          <= DebounceWindow

\* "last and (timezone.now() - last.created_at).total_seconds() < 3"
too_soon(session_id, device_hash) ==
    /\ feedback_of(session_id, device_hash) # {}
    /\ now - feedback[last_feedback(session_id, device_hash)].created_at
          < DebounceWindow

FeedbackReturn(req, code) == [req EXCEPT !.pc = "done", !.resp = code]

FeedbackGone == [FeedbackIdle EXCEPT !.pc = "gone"]

\* mutant of submit_feedback: a rate-limited attempt is stored as an event
submit_feedback_records_rejected(r, session_id, h, feedback_type) ==
    /\ freq[r].pc = "idle"
    /\ \A p \in FeedbackReqs : p < r => freq[p].pc # "idle"
    /\ LET req == [FeedbackIdle EXCEPT !.session_id = session_id, !.header = h,
                                       !.feedback_type = feedback_type]
           limited == /\ session_found(session_id)
                      /\ feedback_type \in FeedbackTypes
                      /\ too_soon(session_id, get_device_hash(h))
           new == IF ~session_found(session_id)
                  THEN FeedbackReturn(req, 404)
                  ELSE IF feedback_type \notin FeedbackTypes
                  THEN FeedbackReturn(req, 400)
                  ELSE IF limited
                  THEN FeedbackReturn(req, 429)
                  ELSE [req EXCEPT !.pc = "create"]
       IN  /\ freq' = [p \in FeedbackReqs |->
                          IF p = r THEN new
                          ELSE IF freq[p].pc = "done" THEN FeedbackGone
                          ELSE freq[p]]
           /\ feedback' = IF limited
                          THEN Append(feedback,
                                   [session |-> session_id,
                                    device_hash |-> get_device_hash(h),
                                    feedback_type |-> feedback_type,
                                    created_at |-> now, req |-> r])
                          ELSE feedback
    /\ UNCHANGED <<now, fsent, hsent, fframe>>

\* submit_feedback up to the rate-limit test
submit_feedback(r, session_id, h, feedback_type) ==
    /\ freq[r].pc = "idle"
    /\ \A p \in FeedbackReqs : p < r => freq[p].pc # "idle"
    /\ LET req == [FeedbackIdle EXCEPT !.session_id = session_id, !.header = h,
                                       !.feedback_type = feedback_type]
           new == IF ~session_found(session_id)
                  THEN FeedbackReturn(req, 404)
                  ELSE IF feedback_type \notin FeedbackTypes
                  THEN FeedbackReturn(req, 400)
                  ELSE IF too_soon(session_id, get_device_hash(h))
                  THEN FeedbackReturn(req, 429)
                  ELSE [req EXCEPT !.pc = "create"]
       IN  freq' = [p \in FeedbackReqs |->
                       IF p = r THEN new
                       ELSE IF freq[p].pc = "done" THEN FeedbackGone
                       ELSE freq[p]]
    /\ UNCHANGED <<now, feedback, fsent, hsent, fframe>>

\* FeedbackEvent.objects.create(...): created_at is the time of the INSERT
submit_feedback_create(r) ==
    /\ freq[r].pc = "create"
    /\ feedback' = Append(feedback,
           [session |-> freq[r].session_id,
            device_hash |-> get_device_hash(freq[r].header),
            feedback_type |-> freq[r].feedback_type,
            created_at |-> now, req |-> r])
    /\ freq' = [freq EXCEPT ![r].pc = "send"]
    /\ UNCHANGED <<now, fsent, hsent, fframe>>

\* the group_send of submit_feedback for request r: the message is logged
\* and the channel layer holds it for the channels that are in `group` now
feedback_group_send(group, r) ==
    LET message == [group |-> group,
                    type |-> "feedback_message",
                    feedback_type |-> freq[r].feedback_type,
                    req |-> r]
    IN  /\ fsent' = Append(fsent, message)
        /\ hsent' = [hsent EXCEPT ![group] = Append(@, message)]

\* mutant of submit_feedback_send: the message goes to the student group
submit_feedback_send_student(r) ==
    /\ freq[r].pc = "send"
    /\ feedback_group_send(
           get_session_group_name(freq[r].session_id, "student"), r)
    /\ freq' = [freq EXCEPT ![r] = FeedbackReturn(@, 200)]
    /\ UNCHANGED <<now, feedback, fframe>>

submit_feedback_send(r) ==
    /\ freq[r].pc = "send"
    /\ feedback_group_send(
           get_session_group_name(freq[r].session_id, "teacher"), r)
    /\ freq' = [freq EXCEPT ![r] = FeedbackReturn(@, 200)]
    /\ UNCHANGED <<now, feedback, fframe>>

\* group_send of submit_feedback raises after the INSERT
feedback_group_send_raises(r) ==
    /\ freq[r].pc = "send"
    /\ freq' = [freq EXCEPT ![r] = FeedbackReturn(@, 500)]
    /\ UNCHANGED <<now, feedback, fsent, hsent, fframe>>

\* a second passes
Tick ==
    /\ now < MaxTime
    /\ now' = now + 1
    /\ UNCHANGED <<feedback, freq, fsent, hsent, fframe>>

-----------------------------------------------------------------------------
(* SessionConsumer *)

ConnIds == 1..MaxConns

\* "(?P<role>teacher|student)"
Roles == {"teacher", "student"}

\* close codes of a closing handshake and of a lost transport
CloseCodes == {1000, 1006}

\* "import redis.asyncio as redis" succeeded
redis_imported == TRUE

\* the names of the groups
GroupNames ==
    {get_session_group_name(s, role) : s \in SessionArgs, role \in Roles}

NewConn ==
    [pc |-> "new", session_id |-> UnknownSession, role |-> "student",
     is_online |-> FALSE, teacher_online |-> FALSE, close_code |-> 0]

HubEmpty ==
    /\ conns = [c \in ConnIds |-> NewConn]
    /\ teachers = [s \in SessionArgs |-> {}]
    /\ groups = {}
    /\ hsent = [g \in GroupNames |-> <<>>]
    /\ frames = [c \in ConnIds |-> <<>>]
    /\ cursor = [c \in ConnIds |-> 0]
    /\ pending = [c \in ConnIds |-> 0]
    /\ inbound = [c \in ConnIds |-> <<>>]
    /\ redis_up = TRUE

\* self.group_name
group_name(c) == get_session_group_name(conns[c].session_id, conns[c].role)

\* mutant of mark_teacher_connected: the set is written back as a whole
mark_teacher_connected_overwrites(members, c) == {c}

\* mutant of mark_teacher_connected: the member is not added
mark_teacher_connected_skips(members, c) == members

\* redis.sadd(key, self.channel_name)
mark_teacher_connected(members, c) ==
    IF ~redis_imported THEN members ELSE members \cup {c}

\* mutant of mark_teacher_disconnected: the member is not removed
mark_teacher_disconnected_keeps(members, c) == members

\* redis.srem(key, self.channel_name)
mark_teacher_disconnected(members, c) ==
    IF ~redis_imported THEN members ELSE members \ {c}

\* redis.scard(key) > 0
is_teacher_online(session_id) ==
    IF ~redis_imported THEN FALSE ELSE Cardinality(teachers[session_id]) > 0

\* the socket of connection c is open at the server
transport_up(c) ==
    conns[c].pc \in {"accepted", "marked", "read", "snapshot", "open"}

\* send_json: the frame goes down the socket if it is still open
send_json(c, data) ==
    frames' = [frames EXCEPT ![c] = IF transport_up(c) THEN Append(@, data) ELSE @]

\* connect: group_add and accept
connect(c, session_id, role) ==
    /\ conns[c].pc = "new"
    /\ \A d \in ConnIds : d < c => conns[d].pc # "new"
    /\ conns' = [conns EXCEPT ![c] = [NewConn EXCEPT !.pc = "accepted",
                                         !.session_id = session_id,
                                         !.role = role]]
    /\ groups' = groups \cup {<<get_session_group_name(session_id, role), c>>}
    /\ cursor' = [cursor EXCEPT ![c] =
                      Len(hsent[get_session_group_name(session_id, role)])]
    /\ UNCHANGED <<teachers, hsent, frames, pending, hframe>>

\* connect: _mark_teacher_connected
connect_mark_teacher(c) ==
    /\ conns[c].pc = "accepted"
    /\ conns[c].role = "teacher"
    /\ redis_up
    /\ teachers' = [teachers EXCEPT ![conns[c].session_id] =
                       mark_teacher_connected(@, c)]
    /\ conns' = [conns EXCEPT ![c].pc = "marked"]
    /\ UNCHANGED <<groups, hsent, frames, cursor, pending, hframe>>

\* _broadcast_teacher_presence: is_online = await self._is_teacher_online()
broadcast_presence_read(c, from, to) ==
    /\ conns[c].pc = from
    /\ redis_up
    /\ conns' = [conns EXCEPT ![c].pc = to,
                              ![c].is_online = is_teacher_online(conns[c].session_id)]
    /\ UNCHANGED <<teachers, groups, hsent, frames, cursor, pending, hframe>>

\* _broadcast_teacher_presence: group_send to the student group
broadcast_presence_send(c, from, to) ==
    /\ conns[c].pc = from
    /\ hsent' = [hsent EXCEPT
           ![get_session_group_name(conns[c].session_id, "student")] =
               Append(@, [type |-> "teacher_presence",
                          is_online |-> conns[c].is_online,
                          conn |-> c])]
    /\ conns' = [conns EXCEPT ![c].pc = to]
    /\ UNCHANGED <<teachers, groups, frames, cursor, pending, hframe>>

connect_presence_read(c) == broadcast_presence_read(c, "marked", "read")

connect_presence_send(c) == broadcast_presence_send(c, "read", "snapshot")

\* connect of a student: teacher_online = await self._is_teacher_online()
connect_teacher_online(c) ==
    /\ conns[c].pc = "accepted"
    /\ conns[c].role = "student"
    /\ redis_up
    /\ conns' = [conns EXCEPT ![c].pc = "snapshot",
                              ![c].teacher_online =
                                  is_teacher_online(conns[c].session_id)]
    /\ UNCHANGED <<teachers, groups, hsent, frames, cursor, pending, hframe>>

\* connect: send_json of the "connected" event
connect_send_json(c) ==
    /\ conns[c].pc = "snapshot"
    /\ send_json(c, [event |-> "connected", session_id |-> conns[c].session_id,
                     role |-> conns[c].role,
                     teacher_online |-> conns[c].teacher_online])
    /\ conns' = [conns EXCEPT ![c].pc = "open"]
    /\ UNCHANGED <<teachers, groups, hsent, cursor, pending, hframe>>

\* the handler of connection c is about to await a Redis command: sadd, srem
\* or scard
at_redis_command(c) ==
    \/ conns[c].pc \in {"accepted", "marked", "unmarked"}
    \/ conns[c].pc = "disconnecting" /\ conns[c].role = "teacher"

\* the Redis command of the handler of connection c raises: the handlers
\* catch nothing, so the exception leaves connect or disconnect and ends the
\* consumer where it is
redis_error(c) ==
    /\ redis_imported
    /\ ~redis_up
    /\ at_redis_command(c)
    /\ conns' = [conns EXCEPT ![c].pc = "failed"]
    /\ UNCHANGED <<teachers, groups, hsent, frames, cursor, pending, hframe>>

\* the Redis server becomes unreachable
redis_down ==
    /\ redis_up
    /\ redis_up' = FALSE
    /\ UNCHANGED <<conns, teachers, groups, hsent, frames, cursor, pending,
                   inbound, session_active, qvars, fvars, evars>>

\* the Redis server is reachable again
redis_back ==
    /\ ~redis_up
    /\ redis_up' = TRUE
    /\ UNCHANGED <<conns, teachers, groups, hsent, frames, cursor, pending,
                   inbound, session_active, qvars, fvars, evars>>

\* the transport of an open connection goes away, by a close frame of
\* either side or abruptly, and websocket.disconnect is dispatched
websocket_disconnect(c, close_code) ==
    /\ conns[c].pc \in {"open", "server_closed"}
    /\ conns' = [conns EXCEPT ![c].pc = "disconnecting",
                              ![c].close_code = close_code]
    /\ UNCHANGED <<teachers, groups, hsent, frames, cursor, pending, hframe>>

\* disconnect: _mark_teacher_disconnected
disconnect_mark_teacher(c) ==
    /\ conns[c].pc = "disconnecting"
    /\ conns[c].role = "teacher"
    /\ redis_up
    /\ teachers' = [teachers EXCEPT ![conns[c].session_id] =
                       mark_teacher_disconnected(@, c)]
    /\ conns' = [conns EXCEPT ![c].pc = "unmarked"]
    /\ UNCHANGED <<groups, hsent, frames, cursor, pending, hframe>>

disconnect_presence_read(c) == broadcast_presence_read(c, "unmarked", "unread")

disconnect_presence_send(c) == broadcast_presence_send(c, "unread", "discard")

\* mutant of disconnect_group_discard: the channel stays in its group
disconnect_group_discard_keeps(c) ==
    /\ \/ conns[c].pc = "discard"
       \/ conns[c].pc = "disconnecting" /\ conns[c].role # "teacher"
    /\ conns' = [conns EXCEPT ![c].pc = "closed"]
    /\ UNCHANGED <<teachers, groups, hsent, frames, cursor, pending, hframe>>

\* disconnect: group_discard
disconnect_group_discard(c) ==
    /\ \/ conns[c].pc = "discard"
       \/ conns[c].pc = "disconnecting" /\ conns[c].role # "teacher"
    /\ groups' = groups \ {<<group_name(c), c>>}
    /\ conns' = [conns EXCEPT ![c].pc = "closed"]
    /\ UNCHANGED <<teachers, hsent, frames, cursor, pending, hframe>>

RECURSIVE sum(_, _)
sum(f, S) == IF S = {} THEN 0
             ELSE LET x == CHOOSE y \in S : TRUE IN f[x] + sum(f, S \ {x})

\* the ping frames that wait and the pong frames that were sent
pings ==
    sum(pending, ConnIds) +
    sum([d \in ConnIds |-> Cardinality({i \in DOMAIN frames[d] :
                                           frames[d][i].event = "pong"})], ConnIds)

\* the client of connection c sends {"type": "ping"}
ping(c) ==
    /\ transport_up(c)
    /\ pings < MaxPings
    /\ pending' = [pending EXCEPT ![c] = @ + 1]
    /\ UNCHANGED <<conns, teachers, groups, hsent, frames, cursor, hframe>>

\* the consumer of connection c is between two handlers
dispatching(c) == conns[c].pc \in {"open", "server_closed"}

\* mutant of receive_frame: the pong goes to every open socket
receive_frame_to_all(c) ==
    /\ dispatching(c)
    /\ pending[c] > 0
    /\ pending' = [pending EXCEPT ![c] = @ - 1]
    /\ frames' = [d \in ConnIds |->
                     IF transport_up(d) THEN Append(frames[d], [event |-> "pong"])
                     ELSE frames[d]]
    /\ UNCHANGED <<conns, teachers, groups, hsent, cursor, hframe>>

\* receive: a ping frame is answered with pong
receive_frame(c) ==
    /\ dispatching(c)
    /\ pending[c] > 0
    /\ pending' = [pending EXCEPT ![c] = @ - 1]
    /\ send_json(c, [event |-> "pong"])
    /\ UNCHANGED <<conns, teachers, groups, hsent, cursor, hframe>>

\* text_data of a binary frame
NoTextData == "<None>"

PingText == "{\"type\": \"ping\"}"

\* the text frames a client sends besides ping: text that is not JSON, an
\* object with another type, an object without type, an array, a number
OtherTexts == {"hello", "{\"type\": \"pong\"}", "{}", "[]", "5"}

\* the frames a client sends besides ping: a binary frame or one of the texts
OtherFrames == {[text_data |-> t] : t \in OtherTexts \cup {NoTextData}}

\* json.loads: JSONDecodeError (ok = FALSE) or the value; of a dict its "type"
json_loads(text) ==
    CASE text = PingText -> [ok |-> TRUE, is_dict |-> TRUE, type |-> "ping"]
      [] text = "{\"type\": \"pong\"}" ->
             [ok |-> TRUE, is_dict |-> TRUE, type |-> "pong"]
      [] text = "{}" -> [ok |-> TRUE, is_dict |-> TRUE, type |-> "None"]
      [] text = "[]" -> [ok |-> TRUE, is_dict |-> FALSE, type |-> "None"]
      [] text = "5" -> [ok |-> TRUE, is_dict |-> FALSE, type |-> "None"]
      [] OTHER -> [ok |-> FALSE, is_dict |-> FALSE, type |-> "None"]

\* receive(text_data, bytes_data): how the handler ends for a frame. It
\* returns for a binary frame and for text that is not JSON; data.get raises
\* AttributeError when the JSON value is not a dict; a ping is answered
receive_result(frame) ==
    IF frame.text_data = NoTextData THEN "return"
    ELSE LET data == json_loads(frame.text_data)
         IN  IF ~data.ok THEN "return"
             ELSE IF ~data.is_dict THEN "raise"
             ELSE IF data.type = "ping" THEN "pong"
             ELSE "return"

\* the frames of `inbound` that no handler has taken
waiting(c) == {i \in DOMAIN inbound[c] : ~inbound[c][i].handled}

\* the client of connection c sends a frame that is not a ping
send_frame(c, frame) ==
    /\ transport_up(c)
    /\ sum([d \in ConnIds |-> Len(inbound[d])], ConnIds) < MaxFrames
    /\ inbound' = [inbound EXCEPT ![c] =
                       Append(@, [frame |-> frame, handled |-> FALSE])]
    /\ UNCHANGED <<conns, teachers, groups, hsent, frames, cursor, pending,
                   redis_up, session_active, qvars, fvars, evars>>

\* receive for the oldest waiting frame of connection c. An exception that
\* leaves the handler ends the consumer: the server closes the socket and no
\* disconnect handler runs
receive_other(c) ==
    /\ dispatching(c)
    /\ waiting(c) # {}
    /\ LET i == CHOOSE j \in waiting(c) : \A k \in waiting(c) : j <= k
           result == receive_result(inbound[c][i].frame)
       IN  /\ inbound' = [inbound EXCEPT ![c][i].handled = TRUE]
           /\ conns' = IF result = "raise"
                        THEN [conns EXCEPT ![c].pc = "failed"]
                        ELSE conns
           /\ IF result = "pong"
              THEN send_json(c, [event |-> "pong"])
              ELSE UNCHANGED frames
    /\ UNCHANGED <<teachers, groups, hsent, cursor, pending,
                   redis_up, session_active, qvars, fvars, evars>>

\* the next group message that the channel layer holds for connection c
group_message(c) == hsent[group_name(c)][cursor[c] + 1]

\* a message of its group is waiting for the consumer of connection c
group_message_waits(c, type) ==
    /\ dispatching(c)
    /\ <<group_name(c), c>> \in groups
    /\ cursor[c] < Len(hsent[group_name(c)])
    /\ group_message(c).type = type

\* the teacher_presence handler
teacher_presence(c) ==
    /\ group_message_waits(c, "teacher_presence")
    /\ cursor' = [cursor EXCEPT ![c] = @ + 1]
    /\ send_json(c, [event |-> "teacher_presence",
                     is_online |-> group_message(c).is_online])
    /\ UNCHANGED <<conns, teachers, groups, hsent, pending, hframe>>

\* the feedback_message handler
feedback_message(c) ==
    /\ group_message_waits(c, "feedback_message")
    /\ cursor' = [cursor EXCEPT ![c] = @ + 1]
    /\ send_json(c, [event |-> "feedback",
                     feedback_type |-> group_message(c).feedback_type])
    /\ UNCHANGED <<conns, teachers, groups, hsent, pending, hframe>>

\* the question_intent handler
question_intent(c) ==
    /\ group_message_waits(c, "question_intent")
    /\ cursor' = [cursor EXCEPT ![c] = @ + 1]
    /\ send_json(c, [event |-> "question_intent",
                     question_id |-> group_message(c).question_id,
                     created_at |-> group_message(c).created_at])
    /\ UNCHANGED <<conns, teachers, groups, hsent, pending, hframe>>

\* the important_message handler
important_message(c) ==
    /\ group_message_waits(c, "important_message")
    /\ cursor' = [cursor EXCEPT ![c] = @ + 1]
    /\ send_json(c, [event |-> "important",
                     note |-> group_message(c).note,
                     capture |-> group_message(c).capture])
    /\ UNCHANGED <<conns, teachers, groups, hsent, pending, hframe>>

\* the question_capture handler
question_capture(c) ==
    /\ group_message_waits(c, "question_capture")
    /\ cursor' = [cursor EXCEPT ![c] = @ + 1]
    /\ send_json(c, [event |-> "question_capture",
                     question_id |-> group_message(c).question_id])
    /\ UNCHANGED <<conns, teachers, groups, hsent, pending, hframe>>

\* mutant of close: the socket stays open
close_stays_open(pc) == pc

\* self.close(): the server closes the socket
close(pc) == "server_closed"

\* the session_ended handler
session_ended(c) ==
    /\ group_message_waits(c, "session_ended")
    /\ cursor' = [cursor EXCEPT ![c] = @ + 1]
    /\ send_json(c, [event |-> "session_ended"])
    /\ conns' = [conns EXCEPT ![c].pc = close(@)]
    /\ UNCHANGED <<teachers, groups, hsent, pending, hframe>>

\* end_session: the session is closed and session_ended goes to both of
\* its groups
end_session(session_id) ==
    /\ session_found(session_id)
    /\ session_active' = [session_active EXCEPT ![session_id] = FALSE]
    /\ hsent' = [g \in GroupNames |->
           IF g \in {get_session_group_name(session_id, role) : role \in Roles}
           THEN Append(hsent[g], [type |-> "session_ended", is_online |-> FALSE,
                                  conn |-> 0])
           ELSE hsent[g]]
    /\ UNCHANGED <<conns, teachers, groups, frames, cursor, pending, inbound,
                   redis_up, qvars, fvars, evars>>

-----------------------------------------------------------------------------
(* mark_important and generate_important_summary_task *)

MarkReqs == 1..MaxMarkReqs

RunIds == 1..MaxRuns

\* request.data.get("note", "") or ""
RawNotes == {Empty, <<SP>>, <<"jung", "yo">>}

\* what the model returns for the image: an API error, nothing, blanks, or
\* a line of text with blanks around it
SummaryResponses ==
    {Fail, Empty, <<SP>>,
     <<"geu", "rae", "peu", SP, "seol", "myeong">>,
     <<SP, "pyo", SP>>}

\* Optional[str] without a value
None == <<"None">>

MarkIdle ==
    [pc |-> "idle", session_id |-> UnknownSession, raw_note |-> Empty,
     screenshot |-> FALSE, moment |-> NoObj, resp |-> 0]

RunIdle ==
    [pc |-> "idle", msg |-> NoObj, note |-> Empty, screenshot_image |-> FALSE,
     response |-> None, auto_summary |-> None, final_note_local |-> Empty]

\* an execution that has returned and whose locals are released
RunGone == [RunIdle EXCEPT !.pc = "gone"]

EnrichmentEmpty ==
    /\ moments = <<>>
    /\ mreq = [r \in MarkReqs |-> MarkIdle]
    /\ esent = <<>>
    /\ queue = <<>>
    /\ runs = [k \in RunIds |-> RunIdle]
    /\ note_writes = <<>>

MarkReturn(req, code) ==
    [MarkIdle EXCEPT !.pc = "done", !.resp = code,
                     !.session_id = req.session_id, !.moment = req.moment]

MarkGone == [MarkIdle EXCEPT !.pc = "gone"]

\* mark_important up to the INSERT
mark_important(r, session_id, raw_note, screenshot) ==
    /\ mreq[r].pc = "idle"
    /\ \A p \in MarkReqs : p < r => mreq[p].pc # "idle"
    /\ LET req == [MarkIdle EXCEPT !.session_id = session_id,
                                   !.raw_note = raw_note,
                                   !.screenshot = screenshot]
           new == IF ~session_found(session_id)
                  THEN MarkReturn(req, 404)
                  ELSE [req EXCEPT !.pc = "create"]
       IN  mreq' = [p \in MarkReqs |->
                       IF p = r THEN new
                       ELSE IF mreq[p].pc = "done" THEN MarkGone
                       ELSE mreq[p]]
    /\ UNCHANGED <<moments, esent, queue, runs, note_writes, hsent, eframe>>

\* ImportantMoment.objects.create(...)
mark_important_create(r) ==
    /\ mreq[r].pc = "create"
    /\ moments' = Append(moments,
           [session |-> mreq[r].session_id, trigger |-> "MANUAL",
            note |-> mreq[r].raw_note,
            screenshot_image |-> mreq[r].screenshot])
    /\ mreq' = [mreq EXCEPT ![r].pc = "send", ![r].moment = Len(moments) + 1]
    /\ UNCHANGED <<esent, queue, runs, note_writes, hsent, eframe>>

\* group_send of important_message to the student group
\* mutant of task_finish_sends: the task broadcasts the note it saved
task_finish_sends_note(log, m, note) ==
    Append(log, [group |-> get_session_group_name(moments[m].session, "student"),
                 type |-> "important_message", note |-> note,
                 capture |-> TRUE, moment |-> m])

\* what the task sends to the groups: nothing
task_finish_sends(log, m, note) == log

\* the group_send of mark_important: the message is logged and the channel
\* layer holds it for the channels that are in the student group now
mark_important_send(r) ==
    /\ mreq[r].pc = "send"
    /\ LET group == get_session_group_name(mreq[r].session_id, "student")
           message == [group |-> group,
                       type |-> "important_message",
                       note |-> mreq[r].raw_note,
                       capture |-> mreq[r].screenshot,
                       moment |-> mreq[r].moment]
       IN  /\ esent' = Append(esent, message)
           /\ hsent' = [hsent EXCEPT ![group] = Append(@, message)]
    /\ mreq' = [mreq EXCEPT ![r].pc = "delay"]
    /\ UNCHANGED <<moments, queue, runs, note_writes, eframe>>

\* group_send of mark_important raises after the INSERT: the task is not
\* submitted
mark_important_send_raises(r) ==
    /\ mreq[r].pc = "send"
    /\ mreq' = [mreq EXCEPT ![r] = MarkReturn(@, 500)]
    /\ UNCHANGED <<moments, esent, queue, runs, note_writes, hsent, eframe>>

\* generate_important_summary_task.delay(...)
mark_important_delay(r) ==
    /\ mreq[r].pc = "delay"
    /\ queue' = Append(queue,
           [moment_id |-> mreq[r].moment,
            session_id_str |-> mreq[r].session_id,
            raw_note |-> mreq[r].raw_note])
    /\ mreq' = [mreq EXCEPT ![r] = MarkReturn(@, 201)]
    /\ UNCHANGED <<moments, esent, runs, note_writes, hsent, eframe>>

\* the moments stored by upload_question_capture
captures == {m \in DOMAIN moments : moments[m].trigger = "QUESTION"}

\* upload_question_capture of a teacher for a stored question, with a
\* screenshot: the moment is created and question_capture is sent to the
\* student group of the question's session. A request for a question that is
\* not stored (404) or without a screenshot (400) changes nothing
upload_question_capture(question_id) ==
    /\ Cardinality(captures) < MaxCaptures
    /\ question_exists(question_id)
    /\ LET session == questions[question_id].session
           group == get_session_group_name(session, "student")
       IN  /\ moments' = Append(moments,
                  [session |-> session, trigger |-> "QUESTION",
                   note |-> Empty, screenshot_image |-> TRUE])
           /\ hsent' = [hsent EXCEPT ![group] =
                  Append(@, [group |-> group, type |-> "question_capture",
                             question_id |-> question_id,
                             moment |-> Len(moments) + 1])]
    /\ UNCHANGED <<mreq, esent, queue, runs, note_writes, eframe>>

\* summarize_image: RuntimeError when the call fails, else the stripped text
summarize_image(response) == llm_call(response)

\* _ai_summarize_important_image_for_task
ai_summarize_important_image_for_task(has_image_path, response) ==
    IF ~has_image_path THEN None
    ELSE IF summarize_image(response) = Fail THEN None
    ELSE IF strip(summarize_image(response)) = Empty THEN None
    ELSE strip(summarize_image(response))

\* mutant of final_note: the raw note is dropped when there is a summary
final_note_summary_only(raw_note, auto_summary) ==
    IF auto_summary # None THEN auto_summary ELSE raw_note

\* "note와 자동 요약 결합 로직" of the task
final_note(raw_note, auto_summary) ==
    IF truthy(raw_note) /\ auto_summary # None
    THEN raw_note \o <<SP, "|", SP>> \o auto_summary
    ELSE IF auto_summary # None THEN auto_summary
    ELSE raw_note

\* the worker gets message m, for the first time or once more, and the task
\* loads the moment
task_load(k, m) ==
    /\ runs[k].pc = "idle"
    /\ \A j \in RunIds : j < k => runs[j].pc # "idle"
    /\ m \in DOMAIN queue
    /\ runs' = [j \in RunIds |->
           IF j = k
           THEN [RunIdle EXCEPT !.pc = "loaded", !.msg = m,
                                !.note = moments[queue[m].moment_id].note,
                                !.screenshot_image =
                                    moments[queue[m].moment_id].screenshot_image]
           ELSE IF runs[j].pc = "done" THEN RunGone
           ELSE runs[j]]
    /\ UNCHANGED <<moments, mreq, esent, queue, note_writes, hsent, eframe>>

\* the rest of the task: the summary, the final note, the conditional save
task_finish(k, response) ==
    /\ runs[k].pc = "loaded"
    /\ runs[k].screenshot_image \/ response = Fail
    /\ LET msg == queue[runs[k].msg]
           auto_summary == IF runs[k].screenshot_image
                           THEN ai_summarize_important_image_for_task(TRUE, response)
                           ELSE None
           final_note_local == final_note(msg.raw_note, auto_summary)
       IN  /\ runs' = [runs EXCEPT ![k].pc = "done",
                                   ![k].response =
                                       IF runs[k].screenshot_image
                                       THEN response ELSE None,
                                   ![k].auto_summary = auto_summary,
                                   ![k].final_note_local = final_note_local]
           /\ IF final_note_local # runs[k].note
              THEN /\ moments' = [moments EXCEPT
                                     ![msg.moment_id].note = final_note_local]
                   /\ note_writes' = Append(note_writes,
                          [moment |-> msg.moment_id, note |-> final_note_local,
                           run |-> k])
              ELSE UNCHANGED <<moments, note_writes>>
           /\ esent' = task_finish_sends(esent, msg.moment_id, final_note_local)
    /\ UNCHANGED <<mreq, queue, hsent, eframe>>

-----------------------------------------------------------------------------
(* Specifications *)

\* the tables are empty, or a device has started one question earlier on;
\* the one Session row is active
Init ==
    /\ session_active = [s \in Sessions |-> TRUE]
    /\ FeedbackEmpty
    /\ HubEmpty
    /\ EnrichmentEmpty
    /\ questions \in {<<>>} \cup
          {<<NewQuestion(s, get_device_hash(h))>> : s \in Sessions, h \in Headers}
    /\ likes = <<>>
    /\ qreq = [r \in Reqs |-> IdleReq]
    /\ sent = <<>>
    /\ received = {}

\* every table is empty
InitEmpty == Init /\ questions = <<>>

\* a request arrives and runs up to its first database statement
QuestionArrival ==
    \E r \in Reqs :
        \/ \E s \in SessionArgs, h \in Headers : start_question_intent(r, s, h)
        \/ \E q \in QuestionArgs, h \in Headers, t \in OriginalTexts :
               submit_question_text(r, q, h, t)
        \/ \E q \in QuestionArgs, h \in Headers, o \in Overrides :
               request_ai_answer(r, q, h, o)
        \/ \E q \in QuestionArgs, h \in Headers, o \in Overrides :
               forward_question_to_professor(r, q, h, o)
        \/ \E q \in QuestionArgs, h \in Headers : like_question(r, q, h)

\* a request in progress runs its next statement
QuestionStep ==
    \E r \in Reqs :
        \/ start_question_intent_send(r)
        \/ \E c \in CleanResponses : submit_question_text_save(r, c)
        \/ \E a \in AnswerResponses : request_ai_answer_save(r, a)
        \/ forward_question_save(r)
        \/ forward_question_send_teacher(r)
        \/ forward_question_send_student(r)
        \/ like_question_create(r)
        \/ like_question_count(r)
        \/ like_question_send_teacher(r)
        \/ like_question_send_student(r)

InFlight(r) == qreq[r].pc \notin {"idle", "done", "gone"}

\* requests handled by any number of workers at once
QuestionNext == QuestionArrival \/ QuestionStep

vars == <<session_active, qvars, fvars, hvars, evars>>

Spec == Init /\ [][QuestionNext]_vars

\* the question views with a collaborator that may never respond
SilentCollaboratorNext ==
    QuestionNext \/ \E r \in Reqs : generate_content_hangs(r)

\* a worker that can run the next statement of its request runs it
SilentCollaboratorFairSpec ==
    /\ Init /\ [][SilentCollaboratorNext]_vars
    /\ \A r \in Reqs : WF_vars(QuestionStep /\ qreq'[r].pc # qreq[r].pc)

\* requests handled one after the other
SequentialNext ==
    \/ (\A r \in Reqs : ~InFlight(r)) /\ QuestionArrival
    \/ QuestionStep

SequentialSpec == Init /\ [][SequentialNext]_vars

\* the question views together with clients receiving their messages
DeliveryNext == QuestionNext \/ \E i \in 1..(2 * MaxReqs) : receive(i)

DeliverySpec == Init /\ [][DeliveryNext]_vars

\* the question views while sessions are ended
QuestionEndNext == QuestionNext \/ \E s \in SessionArgs : end_session(s)

QuestionEndSpec == Init /\ [][QuestionEndNext]_vars

FeedbackInFlight(r) == freq[r].pc \in {"create", "send"}

FeedbackArrival ==
    \E r \in FeedbackReqs, s \in SessionArgs, h \in Headers,
       t \in FeedbackTypeArgs : submit_feedback(r, s, h, t)

FeedbackStep ==
    \E r \in FeedbackReqs : submit_feedback_create(r) \/ submit_feedback_send(r)

\* submit_feedback requests handled by any number of workers at once
FeedbackNext == FeedbackArrival \/ FeedbackStep \/ Tick

FeedbackSpec == InitEmpty /\ [][FeedbackNext]_vars

\* submit_feedback requests that arrive one after the other
FeedbackSequentialNext ==
    \/ (\A r \in FeedbackReqs : ~FeedbackInFlight(r)) /\ FeedbackArrival
    \/ FeedbackStep
    \/ Tick

FeedbackSequentialSpec == InitEmpty /\ [][FeedbackSequentialNext]_vars

\* a step of the handler that connection c is in
HandlerStep(c) ==
    \/ connect_mark_teacher(c)
    \/ connect_presence_read(c)
    \/ connect_presence_send(c)
    \/ connect_teacher_online(c)
    \/ connect_send_json(c)
    \/ disconnect_mark_teacher(c)
    \/ disconnect_presence_read(c)
    \/ disconnect_presence_send(c)
    \/ disconnect_group_discard(c)

\* consumers of any number of processes, one per connection
HubNext ==
    \E c \in ConnIds :
        \/ \E s \in SessionArgs, role \in Roles : connect(c, s, role)
        \/ \E code \in CloseCodes : websocket_disconnect(c, code)
        \/ HandlerStep(c)

HubSpec == InitEmpty /\ [][HubNext]_vars

\* a handler that can take its next step takes it
HubFairSpec == HubSpec /\ \A c \in ConnIds : WF_vars(HandlerStep(c))

\* a handler of the consumer of connection c for a frame or a group message
DispatchStep(c) ==
    \/ receive_frame(c)
    \/ teacher_presence(c)
    \/ session_ended(c)

\* the consumers with their clients' frames and the end of a session
HubTrafficNext ==
    \/ HubNext
    \/ \E c \in ConnIds : ping(c) \/ DispatchStep(c)
    \/ \E s \in SessionArgs : end_session(s)

HubTrafficSpec == InitEmpty /\ [][HubTrafficNext]_vars

\* the socket that the server has closed goes away
ServerCloseStep(c) ==
    /\ conns[c].pc = "server_closed"
    /\ \E code \in CloseCodes : websocket_disconnect(c, code)

\* a handler that can take its next step takes it, and the close of the
\* server completes
HubTrafficFairSpec ==
    /\ HubTrafficSpec
    /\ \A c \in ConnIds : /\ WF_vars(HandlerStep(c))
                           /\ WF_vars(DispatchStep(c))
                           /\ WF_vars(ServerCloseStep(c))

\* the consumers while the Redis server goes down and comes back
HubOutageNext ==
    \/ HubNext
    \/ \E c \in ConnIds : redis_error(c)
    \/ redis_down
    \/ redis_back

HubOutageSpec == InitEmpty /\ [][HubOutageNext]_vars

\* the consumers with the frames, other than ping, of their clients
HubFramesNext ==
    \/ HubNext
    \/ \E c \in ConnIds :
          \/ \E frame \in OtherFrames : send_frame(c, frame)
          \/ receive_other(c)

HubFramesSpec == InitEmpty /\ [][HubFramesNext]_vars

\* submit_feedback requests that arrive one after the other, with the
\* consumers of clients that attach and stay attached
FeedbackHubNext ==
    \/ \E c \in ConnIds :
          \/ \E s \in SessionArgs, role \in Roles : connect(c, s, role)
          \/ connect_mark_teacher(c)
          \/ connect_presence_read(c)
          \/ connect_presence_send(c)
          \/ connect_teacher_online(c)
          \/ connect_send_json(c)
          \/ feedback_message(c)
          \/ teacher_presence(c)
    \/ (\A r \in FeedbackReqs : ~FeedbackInFlight(r)) /\ FeedbackArrival
    \/ FeedbackStep

FeedbackHubSpec == InitEmpty /\ [][FeedbackHubNext]_vars

\* a student presses the question button
IntentArrival ==
    \E r \in Reqs, s \in SessionArgs, h \in Headers :
        start_question_intent(r, s, h)

\* start_question_intent with the consumers of clients that attach and stay
\* attached, while time passes
IntentHubNext ==
    \/ \E c \in ConnIds :
          \/ \E s \in SessionArgs, role \in Roles : connect(c, s, role)
          \/ connect_mark_teacher(c)
          \/ connect_presence_read(c)
          \/ connect_presence_send(c)
          \/ connect_teacher_online(c)
          \/ connect_send_json(c)
    \/ IntentArrival
    \/ \E r \in Reqs : start_question_intent_send(r)
    \/ \E c \in ConnIds : question_intent(c) \/ teacher_presence(c)
    \/ Tick

IntentHubSpec == InitEmpty /\ [][IntentHubNext]_vars

CaptureArrival == \E q \in QuestionArgs : upload_question_capture(q)

MarkArrival ==
    \E r \in MarkReqs, s \in SessionArgs, n \in RawNotes, f \in BOOLEAN :
        mark_important(r, s, n, f)

MarkStep ==
    \E r \in MarkReqs :
        \/ mark_important_create(r)
        \/ mark_important_send(r)
        \/ mark_important_delay(r)

TaskStart == \E k \in RunIds, m \in 1..MaxMarkReqs : task_load(k, m)

TaskEnd == \E k \in RunIds, response \in SummaryResponses : task_finish(k, response)

\* mark_important requests and task executions on any number of workers
EnrichmentNext == MarkArrival \/ MarkStep \/ TaskStart \/ TaskEnd

EnrichmentSpec == InitEmpty /\ [][EnrichmentNext]_vars

\* the executions of the task run one after the other
EnrichmentSerialNext ==
    \/ MarkArrival
    \/ MarkStep
    \/ (\A k \in RunIds : runs[k].pc # "loaded") /\ TaskStart
    \/ TaskEnd

EnrichmentSerialSpec == InitEmpty /\ [][EnrichmentSerialNext]_vars

\* no HTTP request is being handled
NoRequestInFlight ==
    /\ \A r \in Reqs : ~InFlight(r)
    /\ \A r \in FeedbackReqs : ~FeedbackInFlight(r)
    /\ \A r \in MarkReqs : mreq[r].pc \in {"idle", "done", "gone"}

\* no request has gone to the question views, to submit_feedback, to
\* mark_important
NoQuestionRequest == \A r \in Reqs : qreq[r].pc = "idle"

NoFeedbackRequest == \A r \in FeedbackReqs : freq[r].pc = "idle"

NoMarkRequest == \A r \in MarkReqs : mreq[r].pc = "idle"

\* the commands that write and then broadcast, one request after the other,
\* with a channel layer that may fail at any group_send; nobody is attached.
\* The three kinds of views share no table, and the requests of one
\* behaviour all go to one kind
BroadcastFailureNext ==
    \/ /\ NoRequestInFlight
       /\ \/ /\ NoFeedbackRequest /\ NoMarkRequest
             /\ \E r \in Reqs :
                   \/ \E s \in SessionArgs, h \in Headers :
                          start_question_intent(r, s, h)
                   \/ \E q \in QuestionArgs, h \in Headers, o \in Overrides :
                          forward_question_to_professor(r, q, h, o)
                   \/ \E q \in QuestionArgs, h \in Headers :
                          like_question(r, q, h)
          \/ NoQuestionRequest /\ NoMarkRequest /\ FeedbackArrival
          \/ NoQuestionRequest /\ NoFeedbackRequest /\ MarkArrival
    \/ \E r \in Reqs :
          \/ start_question_intent_send(r)
          \/ forward_question_save(r)
          \/ forward_question_send_teacher(r)
          \/ forward_question_send_student(r)
          \/ like_question_create(r)
          \/ like_question_count(r)
          \/ like_question_send_teacher(r)
          \/ like_question_send_student(r)
          \/ group_send_raises(r)
    \/ FeedbackStep
    \/ \E r \in FeedbackReqs : feedback_group_send_raises(r)
    \/ MarkStep
    \/ \E r \in MarkReqs : mark_important_send_raises(r)

BroadcastFailureSpec == Init /\ [][BroadcastFailureNext]_vars

\* the views that read the device identifier, one request after the other
\* and, per behaviour, either question requests or feedback requests
DeviceIdentityNext ==
    \/ /\ NoRequestInFlight
       /\ \/ NoFeedbackRequest /\ QuestionArrival
          \/ NoQuestionRequest /\ FeedbackArrival
    \/ QuestionStep
    \/ FeedbackStep
    \/ NoQuestionRequest /\ Tick

DeviceIdentitySpec == Init /\ [][DeviceIdentityNext]_vars

\* the views that send to one group only, one request after the other and
\* all of one kind per behaviour, with the consumers of clients that attach
\* and stay attached
GroupIsolationNext ==
    \/ \E c \in ConnIds :
          \/ \E s \in SessionArgs, role \in Roles : connect(c, s, role)
          \/ connect_mark_teacher(c)
          \/ connect_presence_read(c)
          \/ connect_presence_send(c)
          \/ connect_teacher_online(c)
          \/ connect_send_json(c)
          \/ teacher_presence(c)
          \/ feedback_message(c)
          \/ question_intent(c)
          \/ important_message(c)
          \/ question_capture(c)
    \/ /\ NoRequestInFlight
       /\ captures = {}
       /\ \/ NoFeedbackRequest /\ NoMarkRequest /\ IntentArrival
          \/ NoQuestionRequest /\ NoMarkRequest /\ FeedbackArrival
          \/ NoQuestionRequest /\ NoFeedbackRequest /\ MarkArrival
          \/ NoQuestionRequest /\ NoFeedbackRequest /\ NoMarkRequest
                /\ CaptureArrival
    \/ \E r \in Reqs : start_question_intent_send(r)
    \/ FeedbackStep
    \/ MarkStep

GroupIsolationSpec == Init /\ [][GroupIsolationNext]_vars

-----------------------------------------------------------------------------
(* Properties of the question views *)

\* Like rows stored for the pair (question q, device d)
LikeRowsOf(q, d) ==
    {i \in DOMAIN likes : likes[i].question = q /\ likes[i].device_hash = d}

\* question_like_update messages sent to `role` of session s by requests of
\* device d for question q
LikeUpdatesOf(q, d, s, role) ==
    {i \in DOMAIN sent : /\ sent[i].type = "question_like_update"
                         /\ sent[i].question_id = q
                         /\ get_device_hash(sent[i].header) = d
                         /\ sent[i].group = <<"session", s, role>>}

\* messages request r sent
SentBy(r) == {i \in DOMAIN sent : sent[i].req = r}

\* new_question messages request r sent for question q to `role` of session s
NewQuestionsOf(log, r, q, s, role) ==
    {i \in DOMAIN log : /\ log[i].type = "new_question"
                        /\ log[i].req = r
                        /\ log[i].question_id = q
                        /\ log[i].group = <<"session", s, role>>}

Devices == {get_device_hash(h) : h \in Headers}

\* C1 (as claimed): no step of submit-question-text, request-ai-answer or
\* forward-question moves a question's status backwards in the order
\* INTENT < TEXT_SUBMITTED < AI_ANSWERED < FORWARDED.
C1_StatusNeverRegresses ==
    [][\A q \in DOMAIN questions :
          StatusRank(questions'[q].status) >= StatusRank(questions[q].status)]_vars

\* C2: with like-question calls made one after the other, a pair (Q, D) has at
\* most one Like row and at most one question_like_update per group; a call
\* that returned has exactly one row and one update per group behind it; and a
\* call that found the row stored (the second call) returns 200, creates
\* nothing and sends nothing.
C2_IdempotentLike ==
    /\ \A q \in DOMAIN questions, d \in Devices, s \in Sessions, role \in Roles :
          /\ Cardinality(LikeRowsOf(q, d)) <= 1
          /\ Cardinality(LikeUpdatesOf(q, d, s, role)) <= 1
    /\ \A r \in Reqs :
          (qreq[r].op = "like" /\ qreq[r].pc = "done" /\ qreq[r].resp # 404) =>
             LET q == qreq[r].question_id
                 d == get_device_hash(qreq[r].header)
             IN  /\ qreq[r].resp = 200
                 /\ Cardinality(LikeRowsOf(q, d)) = 1
                 /\ \A role \in Roles :
                       Cardinality(LikeUpdatesOf(q, d, questions[q].session,
                                                 role)) = 1
                 /\ ~qreq[r].created => SentBy(r) = {}

\* C2 witness: a second like of the same pair has returned 200 without creating
\* a row, after the first one's broadcast.
C2_Witness ==
    \E r \in Reqs :
        /\ qreq[r].op = "like" /\ qreq[r].pc = "done" /\ qreq[r].resp = 200
        /\ ~qreq[r].created
        /\ SentBy(r) = {}
        /\ Cardinality(LikeRowsOf(qreq[r].question_id,
                                  get_device_hash(qreq[r].header))) = 1
        /\ Len(sent) >= 2

\* C3: whatever the interleaving of like-question requests, a pair
\* (question, device) has at most one Like row and caused at most one
\* question_like_update per group.
C3_LikeUniqueness ==
    \A q \in DOMAIN questions, d \in Devices, s \in Sessions, role \in Roles :
        /\ Cardinality(LikeRowsOf(q, d)) <= 1
        /\ Cardinality(LikeUpdatesOf(q, d, s, role)) <= 1

\* C3 witness: two like requests of one pair ran at once; both found no row, one
\* inserted it and broadcast, the other's INSERT was refused and it returned
\* without a broadcast.
C3_Witness ==
    \E r1, r2 \in Reqs :
        /\ r1 # r2
        /\ qreq[r1].op = "like" /\ qreq[r2].op = "like"
        /\ qreq[r1].question_id = qreq[r2].question_id
        /\ qreq[r1].header = qreq[r2].header
        /\ qreq[r1].pc = "done" /\ qreq[r1].created
        /\ qreq[r2].pc = "done" /\ qreq[r2].integrity_error
        /\ SentBy(r1) # {} /\ SentBy(r2) = {}

\* C5 (as claimed): what a client reads from the store at the moment a message
\* reaches it is at least as new as the message: the question of a
\* question_intent is stored, the question of a new_question has status
\* FORWARDED, and at least like_count likes (at least one) are stored for a
\* question_like_update.
C5_ReadAtReceiptIsFresh ==
    \A o \in received :
        /\ o.exists_read
        /\ o.type = "new_question" => o.status_read = "FORWARDED"
        /\ o.type = "question_like_update" =>
              o.likes_read >= 1 /\ o.likes_read >= o.like_count

\* the request that has just arrived in slot r comes from a device other than
\* the one that created the question it names (a state and its successor)
ForeignArrival(r) ==
    /\ qreq[r].pc = "idle"
    /\ qreq'[r].pc # "idle"
    /\ qreq'[r].op \in {"text", "ai"}
    /\ qreq'[r].question_id \in DOMAIN questions
    /\ questions[qreq'[r].question_id].device_hash #
           get_device_hash(qreq'[r].header)

\* C7 (as claimed): a submit-question-text or request-ai-answer from a device
\* other than the question's creator is answered 403.
C7_ForeignDeviceGets403 ==
    \A r \in Reqs :
        (/\ qreq[r].pc = "done"
         /\ qreq[r].op \in {"text", "ai"}
         /\ qreq[r].question_id \in DOMAIN questions
         /\ questions[qreq[r].question_id].device_hash #
                get_device_hash(qreq[r].header))
        => qreq[r].resp = 403

\* C7 (amended): such a request is rejected at once, with 403, or with 400 when
\* it is a submit-question-text without original text; it changes no question
\* and no like, and sends nothing.
C7_ForeignDeviceRejected ==
    [][\A r \in Reqs :
          ForeignArrival(r) =>
             /\ qreq'[r].pc = "done"
             /\ qreq'[r].resp =
                   IF qreq'[r].op = "text" /\ qreq'[r].original_text = Empty
                   THEN 400 ELSE 403
             /\ questions' = questions
             /\ likes' = likes
             /\ sent' = sent]_vars

\* C7 witness: a request with text from a foreign device was answered 403, on a
\* question that has text, a cleaned text and a status to lose.
C7_Witness ==
    \E r \in Reqs :
        /\ qreq[r].pc = "done" /\ qreq[r].resp = 403
        /\ qreq[r].op = "text" /\ qreq[r].original_text # Empty
        /\ qreq[r].question_id \in DOMAIN questions
        /\ questions[qreq[r].question_id].device_hash #
               get_device_hash(qreq[r].header)
        /\ questions[qreq[r].question_id].status = "TEXT_SUBMITTED"
        /\ questions[qreq[r].question_id].cleaned_text # Empty

-----------------------------------------------------------------------------
(* Properties of submit_feedback *)

\* the events of a device in a session that are persisted
EventsOf(session_id, device_hash) ==
    {i \in DOMAIN feedback : /\ feedback[i].session = session_id
                             /\ feedback[i].device_hash = device_hash}

\* the timestamp of the most recent of them
LatestStamp(session_id, device_hash) ==
    CHOOSE t \in 0..MaxTime :
        /\ \E i \in EventsOf(session_id, device_hash) : feedback[i].created_at = t
        /\ \A i \in EventsOf(session_id, device_hash) : feedback[i].created_at <= t

\* request r arrives, well-formed, from a device that has an accepted event
\* in the session
RepeatedFeedback(r) ==
    /\ freq[r].pc = "idle"
    /\ freq'[r].pc # "idle"
    /\ freq'[r].session_id \in Sessions
    /\ freq'[r].feedback_type \in FeedbackTypes
    /\ EventsOf(freq'[r].session_id, get_device_hash(freq'[r].header)) # {}

\* C4: of two sequential feedback submissions of one device to one session,
\* the second is rejected with 429 when it arrives less than 3 seconds after
\* the timestamp of the accepted first one, and is accepted when it arrives
\* 3 seconds after it or later; an accepted submission is persisted once and
\* broadcast once to the teacher group before it returns 200.
C4_RateLimiting ==
    [][\A r \in FeedbackReqs :
        /\ RepeatedFeedback(r) =>
             LET gap == now - LatestStamp(freq'[r].session_id,
                                          get_device_hash(freq'[r].header))
             IN  /\ gap < 3 => freq'[r].pc = "done" /\ freq'[r].resp = 429
                 /\ gap >= 3 => freq'[r].pc = "create"
        /\ (FeedbackInFlight(r) /\ freq'[r].pc = "done") =>
             /\ freq'[r].resp = 200
             /\ Cardinality({i \in DOMAIN feedback' : feedback'[i].req = r}) = 1
             /\ Cardinality({i \in DOMAIN fsent' : fsent'[i].req = r}) = 1
             /\ \A i \in DOMAIN fsent' : fsent'[i].req = r =>
                    /\ fsent'[i].group = <<"session", freq[r].session_id, "teacher">>
                    /\ fsent'[i].type = "feedback_message"]_vars

\* the first submission is accepted, the second arrives exactly 3 seconds
\* after its timestamp and is accepted, persisted and broadcast, and the
\* third arrives 2 seconds after the second's timestamp and gets 429
C4_Witness ==
    /\ Len(feedback) = 2
    /\ feedback[1].req = 1 /\ feedback[2].req = 2
    /\ feedback[1].session = feedback[2].session
    /\ feedback[1].device_hash = feedback[2].device_hash
    /\ feedback[2].created_at = feedback[1].created_at + 3
    /\ Len(fsent) = 2
    /\ fsent[1].req = 1 /\ fsent[2].req = 2
    /\ freq[3].pc = "done" /\ freq[3].resp = 429
    /\ freq[3].session_id = feedback[2].session
    /\ get_device_hash(freq[3].header) = feedback[2].device_hash
    /\ now = feedback[2].created_at + 2

-----------------------------------------------------------------------------
(* Properties of SessionConsumer *)

\* the answer any process gets to "is a teacher online for session s"
PresenceQuery(s) == is_teacher_online(s)

TeacherOf(c, s) ==
    /\ conns[c].pc # "new"
    /\ conns[c].role = "teacher"
    /\ conns[c].session_id = s

\* teacher connection c has attached to session s and its transport is up
Attached(c, s) ==
    /\ TeacherOf(c, s)
    /\ conns[c].pc \in {"marked", "read", "snapshot", "open"}

\* teacher connection c of session s is being set up or is attached
Remains(c, s) ==
    /\ TeacherOf(c, s)
    /\ conns[c].pc \in {"accepted", "marked", "read", "snapshot", "open"}

\* a teacher connection of session s has detached and none remains
AllDetached(s) ==
    /\ \E c \in ConnIds : TeacherOf(c, s)
    /\ \A c \in ConnIds : ~Remains(c, s)

\* C6: while a teacher connection is attached to session S, the presence
\* query for S answers true; once such a connection has detached, by a close
\* frame or by a lost transport, and no teacher connection of S remains, the
\* presence query for S eventually answers false (unless a teacher connects
\* again first).
C6_PresenceConsistency ==
    /\ [](\A s \in SessionArgs, c \in ConnIds :
            Attached(c, s) => PresenceQuery(s))
    /\ \A s \in SessionArgs :
         AllDetached(s) ~> (~PresenceQuery(s) \/ ~AllDetached(s))

\* two teachers were attached to one session, one has closed and one was
\* lost, and the presence query now answers false
C6_Witness ==
    \E s \in SessionArgs :
        /\ TeacherOf(1, s) /\ TeacherOf(2, s)
        /\ conns[1].pc = "closed" /\ conns[2].pc = "closed"
        /\ {conns[1].close_code, conns[2].close_code} = CloseCodes
        /\ \E i \in DOMAIN hsent[<<"session", s, "student">>] :
               hsent[<<"session", s, "student">>][i].is_online
        /\ ~PresenceQuery(s)

-----------------------------------------------------------------------------
(* Properties of mark_important and generate_important_summary_task *)

\* execution k of the task returns in this step
RunReturns(k) == runs[k].pc = "loaded" /\ runs'[k].pc = "done"

\* the moment that execution k is about, and the raw note of its message
MomentOf(k) == queue[runs[k].msg].moment_id

RawNoteOf(k) == queue[runs[k].msg].raw_note

\* the summarizer gave execution k a summary that is not empty
SummarySucceeded(k) ==
    /\ runs'[k].response \notin {None, Fail}
    /\ strip(runs'[k].response) # Empty

\* the summarizer raised in execution k
SummaryRaised(k) == runs'[k].response = Fail

\* the note the claim expects after execution k of a moment with an image
ExpectedNote(k) ==
    IF SummarySucceeded(k)
    THEN IF RawNoteOf(k) # Empty
         THEN RawNoteOf(k) \o <<" ", "|", " ">> \o strip(runs'[k].response)
         ELSE strip(runs'[k].response)
    ELSE RawNoteOf(k)

JungYo == <<"jung", "yo">>

GraphSeolMyeong == <<"geu", "rae", "peu", " ", "seol", "myeong">>

C10_FailedRunKeepsNote ==
    [][\A k \in RunIds :
          (RunReturns(k) /\ SummaryRaised(k)) => moments' = moments]_vars

\* the UPDATE statements that the task has issued for moment m
WritesOf(m) == {i \in DOMAIN note_writes : note_writes[i].moment = m}

\* C11 (as claimed): under at-least-once delivery the note of a moment is
\* changed at most once after its creation, so that two or more executions
\* of the task leave the note that one execution leaves.
C11_NoteChangedAtMostOnce ==
    \A m \in DOMAIN moments : Cardinality(WritesOf(m)) <= 1

\* the important events sent for moment m
ImportantEventsOf(m) == {i \in DOMAIN esent : esent[i].moment = m}

\* C12: no step of the task sends anything to a group or down a connection;
\* a mark_important command that returns 201 has sent exactly one
\* important_message, to the student group of its session, with the raw
\* note; no moment ever has more than one such event.
C12_EnrichmentNeverBroadcasts ==
    /\ [](\A m \in DOMAIN moments : Cardinality(ImportantEventsOf(m)) <= 1)
    /\ [][/\ runs' # runs =>
                /\ esent' = esent
                /\ <<sent, fsent, hsent, frames>>' = <<sent, fsent, hsent, frames>>
          /\ \A r \in MarkReqs :
                (mreq[r].pc = "delay" /\ mreq'[r].pc = "done") =>
                    /\ mreq'[r].resp = 201
                    /\ esent' = esent
                    /\ Cardinality(ImportantEventsOf(mreq[r].moment)) = 1
                    /\ \A i \in ImportantEventsOf(mreq[r].moment) :
                          /\ esent[i].type = "important_message"
                          /\ esent[i].group =
                                 <<"session", mreq[r].session_id, "student">>
                          /\ esent[i].note = mreq[r].raw_note]_vars

\* the task has run twice for a moment, with a summary the first time;
\* the one event sent carries the raw note and the stored note differs
\* from it
C12_Witness ==
    /\ Len(moments) = 1
    /\ Len(esent) = 1
    /\ esent[1].moment = 1
    /\ mreq[1].pc = "done" /\ mreq[1].resp = 201
    /\ \A k \in RunIds : runs[k].pc \in {"done", "gone"}
    /\ note_writes # <<>>
    /\ moments[1].note # esent[1].note

-----------------------------------------------------------------------------
(* Properties of connect, receive and the group handlers *)

\* connection c is sent its "connected" event in this step
SnapshotSent(c) == conns[c].pc = "snapshot" /\ conns'[c].pc = "open"

\* the frame that connection c has been sent last
LastFrame(c) == frames'[c][Len(frames'[c])]

\* C13 (as claimed): the "connected" event of every connecting client carries
\* the answer of the presence query for its session: the one a student's
\* handler computed, and true for a teacher, whose own connection is in the
\* presence set by then.
C13_InitialSnapshot ==
    [][\A c \in ConnIds :
          /\ (conns[c].pc = "accepted" /\ conns'[c].pc = "snapshot") =>
                 conns'[c].teacher_online = PresenceQuery(conns[c].session_id)
          /\ SnapshotSent(c) =>
                 /\ Len(frames'[c]) = Len(frames[c]) + 1
                 /\ LastFrame(c).event = "connected"
                 /\ LastFrame(c).teacher_online =
                        IF conns[c].role = "teacher"
                        THEN PresenceQuery(conns[c].session_id)
                        ELSE conns[c].teacher_online]_vars

\* a session_ended message of its group waits for connection c
SessionEndedWaits(c) ==
    /\ conns[c].pc # "new"
    /\ <<group_name(c), c>> \in groups
    /\ \E i \in (cursor[c] + 1)..Len(hsent[group_name(c)]) :
           hsent[group_name(c)][i].type = "session_ended"

\* connection c has been sent session_ended as its last frame
SessionEndedLast(c) ==
    /\ frames[c] # <<>>
    /\ frames[c][Len(frames[c])].event = "session_ended"

\* C14: a connection of session S that is attached when session_ended is
\* broadcast for S is sent a session_ended event and is then closed by the
\* server, unless its client has gone first; once the server has closed a
\* connection nothing more is sent down it, a ping that was waiting gets no
\* pong, and the connection ends up in no group.
C14_SessionEnd ==
    /\ [][\A c \in ConnIds :
             /\ (group_message_waits(c, "session_ended") /\ cursor'[c] # cursor[c]
                 /\ conns[c].pc = "open") =>
                    /\ frames'[c] = Append(frames[c], [event |-> "session_ended"])
                    /\ conns'[c].pc = "server_closed"
             /\ ~transport_up(c) => frames'[c] = frames[c]]_vars
    /\ [](\A c \in ConnIds :
             conns[c].pc = "closed" => \A g \in GroupNames : <<g, c>> \notin groups)
    /\ \A c \in ConnIds :
          /\ SessionEndedWaits(c) ~> conns[c].pc = "closed"
          /\ conns[c].pc = "server_closed" ~> conns[c].pc = "closed"

\* a teacher and a student of the session have both got session_ended as
\* their last frame; one is closed and in no group, the other is closed by
\* the server while its ping waits
C14_Witness ==
    /\ ~session_active["s1"]
    /\ conns[1].pc = "closed" /\ conns[2].pc = "server_closed"
    /\ conns[1].session_id = "s1" /\ conns[2].session_id = "s1"
    /\ conns[1].role # conns[2].role
    /\ SessionEndedLast(1) /\ SessionEndedLast(2)
    /\ \A g \in GroupNames : <<g, 1>> \notin groups
    /\ pending[2] = 1

-----------------------------------------------------------------------------
(* Properties of the views at the end of a session *)

\* request r of a question view arrives in this step
QuestionArrives(r) == qreq[r].pc = "idle" /\ qreq'[r].pc # "idle"

\* the session or the question that request r names does not exist, or
\* the session (of the question) is not active
TargetNotFound(r) ==
    IF qreq'[r].op = "intent"
    THEN \/ qreq'[r].session_id \notin Sessions
         \/ ~session_active[qreq'[r].session_id]
    ELSE \/ qreq'[r].question_id \notin DOMAIN questions
         \/ ~session_active[questions[qreq'[r].question_id].session]

\* C15 (as claimed): a command of the question views whose session or
\* question does not exist, or whose session is inactive, is rejected with
\* a client error (4xx) and writes and broadcasts nothing.
C15_NotFound ==
    [][\A r \in Reqs :
          (QuestionArrives(r) /\ TargetNotFound(r)) =>
              /\ qreq'[r].pc = "done"
              /\ qreq'[r].resp \in 400..499
              /\ <<questions, likes, sent>>' = <<questions, likes, sent>>]_vars


\* the step of submit_question_text in which the cleaning collaborator raises
CleaningFails(r) ==
    \E response \in CleanResponses :
        /\ clean_question(qreq[r].original_text, response) = Fail
        /\ submit_question_text_save(r, response)

\* the step of request_ai_answer in which the answering collaborator raises
AnsweringFails(r) ==
    \E response \in AnswerResponses :
        /\ answer_question(qreq[r].cleaned_for_answer, response) = Fail
        /\ request_ai_answer_save(r, response)

\* C16: a failure of an AI collaborator is never surfaced. When cleaning
\* fails, submit-question-text answers 200, stores the submitted original text
\* as the cleaned text and sets TEXT_SUBMITTED; when answering fails,
\* request-ai-answer answers 200, stores the apology as the answer and sets
\* AI_ANSWERED.
C16_AiFailureNotSurfaced ==
    [][\A r \in Reqs :
          /\ CleaningFails(r) =>
                /\ qreq'[r].pc = "done"
                /\ qreq'[r].resp = 200
                /\ questions'[qreq[r].question_id].cleaned_text =
                       qreq[r].original_text
                /\ questions'[qreq[r].question_id].status = "TEXT_SUBMITTED"
          /\ AnsweringFails(r) =>
                /\ qreq'[r].pc = "done"
                /\ qreq'[r].resp = 200
                /\ questions'[qreq[r].question_id].ai_answer = Apology
                /\ questions'[qreq[r].question_id].status = "AI_ANSWERED"]_vars


\* the consumer of the attached connection c takes a ping frame of its client
PingTaken(c) == conns[c].pc = "open" /\ pending'[c] < pending[c]

\* C17: a ping frame on an attached connection puts exactly one pong on that
\* connection's outbound stream and changes nothing else: the groups, the
\* presence sets, the group messages, the stored records and the outbound
\* streams of the other connections stay as they are.
C17_Heartbeat ==
    [][\A c \in ConnIds :
          PingTaken(c) =>
              /\ frames' = [frames EXCEPT ![c] = Append(@, [event |-> "pong"])]
              /\ pending' = [pending EXCEPT ![c] = @ - 1]
              /\ UNCHANGED <<conns, teachers, groups, hsent, cursor, hframe>>]_vars

\* connection 1 has got its pong after its snapshot while connection 2, of
\* the same session, is attached and has got only its snapshot
C17_Witness ==
    /\ conns[1].pc = "open" /\ conns[2].pc = "open"
    /\ conns[1].session_id = conns[2].session_id
    /\ Len(frames[1]) = 2 /\ frames[1][2].event = "pong"
    /\ Len(frames[2]) = 1 /\ frames[2][1].event = "connected"
    /\ pending[1] = 0


\* request r arrives as a start-question-intent on an active session
IntentStarts(r) ==
    /\ qreq[r].pc = "idle"
    /\ qreq'[r].op = "intent"
    /\ session_found(qreq'[r].session_id)

\* the start-question-intent request r returns
IntentReturns(r) ==
    /\ qreq[r].op = "intent"
    /\ qreq[r].pc = "intent_send"
    /\ qreq'[r].pc = "done"

\* the question_intent frames that connection c has got
IntentFrames(c) ==
    {i \in DOMAIN frames[c] : frames[c][i].event = "question_intent"}

\* the question that start_question_intent has to store for request record req
IntentQuestion(req) ==
    [session |-> req.session_id, device_hash |-> get_device_hash(req.header),
     original_text |-> Empty, cleaned_text |-> Empty, ai_answer |-> Empty,
     forwarded_to_professor |-> FALSE, status |-> "INTENT", created_at |-> now]

\* C18: start-question-intent on an active session stores a question with
\* empty original text, status INTENT and the caller's device identifier, and
\* then sends exactly one question_intent event with the new question's id and
\* creation time to the teacher group of the session; the event reaches
\* teacher connections of that session only, never a student connection.
C18_QuestionIntent ==
    /\ [][\A r \in Reqs :
            /\ IntentStarts(r) =>
                  /\ questions' = Append(questions, IntentQuestion(qreq'[r]))
                  /\ qreq'[r].question_id = Len(questions')
                  /\ sent' = sent
            /\ IntentReturns(r) =>
                  /\ qreq'[r].resp = 201
                  /\ questions' = questions
                  /\ Len(sent') = Len(sent) + 1
                  /\ SubSeq(sent', 1, Len(sent)) = sent
                  /\ LET m == sent'[Len(sent')]
                     IN  /\ m.type = "question_intent"
                         /\ m.group = get_session_group_name(qreq[r].session_id,
                                                             "teacher")
                         /\ m.question_id = qreq[r].question_id
                         /\ m.created_at =
                                questions[qreq[r].question_id].created_at
                  /\ hsent' = [hsent EXCEPT
                         ![get_session_group_name(qreq[r].session_id, "teacher")] =
                             Append(@, sent'[Len(sent')])]]_vars
    /\ [](\A c \in ConnIds :
             /\ conns[c].role = "student" => IntentFrames(c) = {}
             /\ \A i \in IntentFrames(c) :
                   /\ frames[c][i].question_id \in DOMAIN questions
                   /\ questions[frames[c][i].question_id].session =
                          conns[c].session_id
                   /\ frames[c][i].created_at =
                          questions[frames[c][i].question_id].created_at)

\* the student of connection 1 and the teacher of connection 2 are attached
\* to session s1; the intent of question 1, created after time 0, has
\* returned 201; the teacher has got its event and the student has nothing
\* left to get
C18_Witness ==
    /\ conns[1].pc = "open" /\ conns[1].role = "student"
    /\ conns[2].pc = "open" /\ conns[2].role = "teacher"
    /\ conns[1].session_id = "s1" /\ conns[2].session_id = "s1"
    /\ Len(questions) = 1 /\ questions[1].created_at > 0
    /\ qreq[1].op = "intent" /\ qreq[1].pc = "done" /\ qreq[1].resp = 201
    /\ \E i \in IntentFrames(2) :
          /\ frames[2][i].question_id = 1
          /\ frames[2][i].created_at = questions[1].created_at
    /\ cursor[1] = Len(hsent[group_name(1)])
    /\ IntentFrames(1) = {}


\* C19: whatever the interleaving of the submit-feedback requests, no two
\* persisted Feedback Events of one device in one session have timestamps
\* less than the debounce window (3 seconds) apart.
C19_RateLimitUnderConcurrency ==
    \A i, j \in DOMAIN feedback :
        (/\ i < j
         /\ feedback[i].session = feedback[j].session
         /\ feedback[i].device_hash = feedback[j].device_hash) =>
            feedback[j].created_at - feedback[i].created_at >= DebounceWindow


\* the teacher_presence events that the handlers of connection c have sent to
\* the student group of its session
PresenceEventsOf(c) ==
    LET log == hsent[get_session_group_name(conns[c].session_id, "student")]
    IN  {i \in DOMAIN log : log[i].type = "teacher_presence" /\ log[i].conn = c}

\* the attaching teacher connection c computes the presence-changed event
PresenceComputed(c) ==
    /\ conns[c].role = "teacher"
    /\ conns[c].pc = "marked"
    /\ conns'[c].pc = "read"

\* the attaching teacher connection c sends the presence-changed event
PresenceSent(c) ==
    /\ conns[c].role = "teacher"
    /\ conns[c].pc = "read"
    /\ conns'[c].pc = "snapshot"

\* C20: an attaching teacher connection is in the presence set of its session
\* when it computes the presence-changed event, so the teacher_presence event
\* it sends to the student group of the session carries is_online = true, and
\* that event is sent before the teacher's own "connected" snapshot.
C20_TeacherAttachOrdering ==
    [][\A c \in ConnIds :
          /\ PresenceComputed(c) =>
                /\ c \in teachers[conns[c].session_id]
                /\ conns'[c].is_online
          /\ PresenceSent(c) =>
                /\ frames[c] = <<>>
                /\ hsent' = [hsent EXCEPT
                       ![get_session_group_name(conns[c].session_id, "student")] =
                           Append(@, [type |-> "teacher_presence",
                                      is_online |-> TRUE, conn |-> c])]
          /\ (SnapshotSent(c) /\ conns[c].role = "teacher") =>
                /\ frames[c] = <<>>
                /\ Cardinality(PresenceEventsOf(c)) = 1
                /\ \A i \in PresenceEventsOf(c) :
                      hsent[get_session_group_name(conns[c].session_id,
                                                   "student")][i].is_online]_vars

\* the teacher of connection 2 has attached to the session of the attached
\* student of connection 1: its one presence event, in the log of the student
\* group, says online, and its snapshot is out
C20_Witness ==
    /\ conns[1].pc = "open" /\ conns[1].role = "student"
    /\ conns[2].pc = "open" /\ conns[2].role = "teacher"
    /\ conns[1].session_id = conns[2].session_id
    /\ Cardinality(PresenceEventsOf(2)) = 1
    /\ \A i \in PresenceEventsOf(2) : hsent[group_name(1)][i].is_online
    /\ Len(frames[2]) = 1 /\ frames[2][1].event = "connected"
    /\ teachers[conns[2].session_id] = {2}


\* the disconnect handler of connection c goes from position `from` to `to`
DetachStep(c, from, to) == conns[c].pc = from /\ conns'[c].pc = to

\* the log of the student group of the session of connection c
StudentLog(c) == hsent[get_session_group_name(conns[c].session_id, "student")]

\* C21: a detaching connection is removed from the group of its session and
\* role. A detaching teacher is first removed from the presence set of its
\* session; the teacher_presence event it then sends to the student group of
\* the session carries what the presence set held when the event was
\* computed: false if no teacher was left in it, true if another teacher
\* connection was. A detaching student changes neither the presence set nor
\* sends a presence event.
C21_Detach ==
    /\ [][\A c \in ConnIds :
            LET s == conns[c].session_id
                student_group == get_session_group_name(s, "student")
            IN  /\ (conns[c].role = "teacher" /\
                    DetachStep(c, "disconnecting", "unmarked")) =>
                       /\ teachers' = [teachers EXCEPT ![s] = @ \ {c}]
                       /\ UNCHANGED <<groups, hsent>>
                /\ DetachStep(c, "unmarked", "unread") =>
                       /\ c \notin teachers[s]
                       /\ conns'[c].is_online = (teachers[s] # {})
                       /\ UNCHANGED <<teachers, groups, hsent>>
                /\ DetachStep(c, "unread", "discard") =>
                       /\ hsent' = [hsent EXCEPT ![student_group] =
                              Append(@, [type |-> "teacher_presence",
                                         is_online |-> conns[c].is_online,
                                         conn |-> c])]
                       /\ UNCHANGED <<teachers, groups>>
                /\ (conns[c].pc # "closed" /\ conns'[c].pc = "closed") =>
                       /\ groups' = groups \ {<<group_name(c), c>>}
                       /\ UNCHANGED <<teachers, hsent>>
                /\ (conns[c].role = "student" /\ conns[c].pc = "disconnecting"
                    /\ conns'[c] # conns[c]) =>
                       /\ conns'[c].pc = "closed"
                       /\ UNCHANGED <<teachers, hsent>>]_vars
    /\ [](\A c \in ConnIds :
             conns[c].pc = "closed" =>
                 /\ \A g \in GroupNames : <<g, c>> \notin groups
                 /\ c \notin teachers[conns[c].session_id]
                 /\ Cardinality(PresenceEventsOf(c)) =
                        IF conns[c].role = "teacher" THEN 2 ELSE 0)

\* two teachers attached to one session and detached one after the other:
\* the event of the first says online, the event of the last says offline
C21_Witness ==
    /\ conns[1].pc = "closed" /\ conns[1].role = "teacher"
    /\ conns[2].pc = "closed" /\ conns[2].role = "teacher"
    /\ conns[1].session_id = conns[2].session_id
    /\ Len(StudentLog(1)) = 4
    /\ StudentLog(1)[3].conn = 1 /\ StudentLog(1)[3].is_online
    /\ StudentLog(1)[4].conn = 2 /\ ~StudentLog(1)[4].is_online
    /\ teachers[conns[1].session_id] = {}
    /\ groups = {}


\* no connect or disconnect handler is between two of its steps
HubQuiet == \A c \in ConnIds : conns[c].pc \in {"new", "open", "closed"}

\* the teacher connections that are attached to session s
AttachedTeachers(s) == {c \in ConnIds : TeacherOf(c, s) /\ conns[c].pc = "open"}

\* the teacher connections of session s between their sadd and their srem
MarkedTeachers(s) ==
    {c \in ConnIds : /\ TeacherOf(c, s)
                     /\ conns[c].pc \in {"marked", "read", "snapshot", "open",
                                         "disconnecting"}}

\* C22: no add or remove of the presence set is lost under any interleaving
\* of attaching and detaching teachers: the set of a session holds exactly the
\* connections between their add and their remove, so whenever no attach or
\* detach is in progress it is the set of the attached teacher connections,
\* and it is empty when the last teacher has detached.
C22_AtomicPresence ==
    \A s \in SessionArgs :
        /\ teachers[s] = MarkedTeachers(s)
        /\ HubQuiet => teachers[s] = AttachedTeachers(s)
        /\ (HubQuiet /\ AttachedTeachers(s) = {}) => teachers[s] = {}

\* two teachers of one session are attached and both are in the set
C22_Witness ==
    \E s \in SessionArgs :
        /\ HubQuiet
        /\ AttachedTeachers(s) = {1, 2}
        /\ teachers[s] = {1, 2}


\* the consumer of connection c takes a frame that is not a ping
OtherFrameTaken(c) ==
    \E i \in DOMAIN inbound[c] :
        ~inbound[c][i].handled /\ inbound'[c][i].handled

\* C23: an inbound frame other than ping (binary, text that is not JSON, an
\* object with another or no type, a JSON value that is not an object) is
\* ignored: the handler sends no frame, changes no state and raises no error,
\* and the connection stays as it was.
C23_UnknownFramesIgnored ==
    [][\A c \in ConnIds :
          OtherFrameTaken(c) =>
              UNCHANGED <<conns, teachers, groups, hsent, frames, cursor,
                          pending, session_active, qvars, fvars, evars>>]_vars


\* the feedback frames that connection c has got
FeedbackFrames(c) ==
    {i \in DOMAIN frames[c] : frames[c][i].event = "feedback"}

\* the messages that submit_feedback has sent for request r
FeedbackSentFor(r) == {i \in DOMAIN fsent : fsent[i].req = r}

\* the events that submit_feedback has stored for request r
FeedbackStoredFor(r) == {i \in DOMAIN feedback : feedback[i].req = r}

\* C24: every accepted feedback submission is first stored as one Feedback
\* Event and then sends exactly one feedback message, to the teacher group of
\* its session only; no student connection ever gets a feedback event, and a
\* teacher connection gets only feedback of stored events of its session.
C24_FeedbackFanOut ==
    /\ [][\A r \in FeedbackReqs :
            /\ (freq[r].pc = "create" /\ freq'[r].pc = "send") =>
                  /\ feedback' = Append(feedback,
                         [session |-> freq[r].session_id,
                          device_hash |-> get_device_hash(freq[r].header),
                          feedback_type |-> freq[r].feedback_type,
                          created_at |-> now, req |-> r])
                  /\ UNCHANGED <<fsent, hsent>>
            /\ (freq[r].pc = "send" /\ freq'[r].pc = "done") =>
                  LET g == get_session_group_name(freq[r].session_id, "teacher")
                      m == [group |-> g, type |-> "feedback_message",
                            feedback_type |-> freq[r].feedback_type, req |-> r]
                  IN  /\ freq'[r].resp = 200
                      /\ Cardinality(FeedbackStoredFor(r)) = 1
                      /\ feedback' = feedback
                      /\ fsent' = Append(fsent, m)
                      /\ hsent' = [hsent EXCEPT ![g] = Append(@, m)]]_vars
    /\ [](/\ \A r \in FeedbackReqs :
               /\ Cardinality(FeedbackSentFor(r)) <= 1
               /\ (freq[r].pc = "done" /\ freq[r].resp = 200) =>
                      Cardinality(FeedbackSentFor(r)) = 1
               /\ FeedbackSentFor(r) # {} => FeedbackStoredFor(r) # {}
          /\ \A c \in ConnIds :
               /\ conns[c].role = "student" => FeedbackFrames(c) = {}
               /\ Cardinality(FeedbackFrames(c)) <=
                      Cardinality({i \in DOMAIN feedback :
                                      feedback[i].session = conns[c].session_id}))

\* the student of connection 1 and the teacher of connection 2 are attached
\* to session s1; a HARD of device d1 was accepted, stored and answered; the
\* teacher has got it and the student has nothing left to get
C24_Witness ==
    /\ conns[1].pc = "open" /\ conns[1].role = "student"
    /\ conns[2].pc = "open" /\ conns[2].role = "teacher"
    /\ conns[1].session_id = "s1" /\ conns[2].session_id = "s1"
    /\ Len(feedback) = 1 /\ feedback[1].device_hash = "d1"
    /\ freq[1].pc = "done" /\ freq[1].resp = 200
    /\ \E i \in FeedbackFrames(2) : frames[2][i].feedback_type = "HARD"
    /\ cursor[1] = Len(hsent[group_name(1)])
    /\ FeedbackFrames(1) = {}


\* a step of submit_question_text or of request_ai_answer for request r: the
\* arrival with the checks, or the call of the collaborator with the save
SilentStep(r) ==
    \/ qreq[r].pc = "idle" /\ qreq'[r].op \in {"text", "ai"}
    \/ qreq[r].pc \in {"text_save", "ai_save"} /\ qreq'[r].pc = "done"

\* the fields of a question that neither view may change
KeptFields(q) ==
    <<q.forwarded_to_professor, q.device_hash, q.session, q.created_at>>

\* C25: submit-question-text and request-ai-answer send no event to any
\* group; a successful one changes only the original text, cleaned text and
\* status (submit-question-text) or the cleaned text, AI answer and status
\* (request-ai-answer) of the question it acts on, and leaves that question's
\* forwarded flag, device identifier and session, the likes and every other
\* question unchanged.
C25_SilentTransitions ==
    [][\A r \in Reqs :
          SilentStep(r) =>
              /\ UNCHANGED <<sent, hsent, likes>>
              /\ DOMAIN questions' = DOMAIN questions
              /\ \A q \in DOMAIN questions :
                    /\ q # qreq'[r].question_id => questions'[q] = questions[q]
                    /\ KeptFields(questions'[q]) = KeptFields(questions[q])
                    /\ qreq'[r].op = "text" =>
                           questions'[q].ai_answer = questions[q].ai_answer
                    /\ qreq'[r].op = "ai" =>
                           questions'[q].original_text = questions[q].original_text
              /\ (qreq'[r].pc = "done" /\ qreq'[r].resp = 200) =>
                    questions'[qreq'[r].question_id].status =
                        IF qreq'[r].op = "text" THEN "TEXT_SUBMITTED"
                        ELSE "AI_ANSWERED"]_vars

\* device d1 has submitted the text of its question 1 and then got the AI
\* answer: both requests returned 200 and nothing was ever sent
C25_Witness ==
    /\ Len(questions) = 1
    /\ questions[1].status = "AI_ANSWERED"
    /\ questions[1].original_text # Empty
    /\ questions[1].ai_answer # Empty
    /\ ~questions[1].forwarded_to_professor
    /\ qreq[1].op = "none" /\ qreq[1].pc = "gone"
    /\ qreq[2].op = "ai" /\ qreq[2].pc = "done" /\ qreq[2].resp = 200
    /\ sent = <<>>


\* request r arrives as a forward-question for a stored question
ForwardStarts(r) ==
    /\ qreq[r].pc = "idle"
    /\ qreq'[r].op = "forward"
    /\ qreq'[r].question_id \in DOMAIN questions

\* C26: forward-question has no ownership check. For a caller with any
\* device identifier or none, the forward of a stored question goes on to the
\* write that a forward by the creating device makes: the row with the
\* forwarded flag, status FORWARDED and the override, if any, as cleaned text;
\* it returns 200, never 403.
C26_ForwardByAnyDevice ==
    [][\A r \in Reqs :
          /\ ForwardStarts(r) =>
                LET q == questions[qreq'[r].question_id]
                    o == qreq'[r].override_cleaned
                IN  /\ qreq'[r].pc = "fwd_save"
                    /\ qreq'[r].question = forward_fields(q, o)
                    /\ qreq'[r].cleaned_for_answer = cleaned_for_answer(o, q)
          /\ (qreq[r].pc = "fwd_save" /\ qreq'[r].pc # "fwd_save") =>
                questions'[qreq[r].question_id] = qreq[r].question
          /\ (qreq[r].op = "forward" /\ qreq'[r].pc = "done"
              /\ qreq[r].pc # "done") =>
                qreq'[r].resp \in {200, 404}]_vars

\* question 1 of device d1 was forwarded by a caller without a device
\* identifier: the request returned 200, the question is FORWARDED and both
\* groups were sent the new_question
C26_Witness ==
    \E r \in Reqs :
        /\ Len(questions) = 1 /\ questions[1].device_hash = "d1"
        /\ qreq[r].op = "forward" /\ qreq[r].header = NoHeader
        /\ qreq[r].question_id = 1
        /\ qreq[r].pc = "done" /\ qreq[r].resp = 200
        /\ questions[1].status = "FORWARDED"
        /\ questions[1].forwarded_to_professor
        /\ \A role \in Roles :
              NewQuestionsOf(sent, r, 1, "s1", role) # {}


\* a job of generate_important_summary_task is submitted
JobSubmitted == Len(queue') = Len(queue) + 1

\* an execution without image returns: no summarizer call, no write
NoImageRunIsIdle ==
    \A k \in RunIds :
        (RunReturns(k) /\ ~moments[MomentOf(k)].screenshot_image) =>
            /\ runs'[k].response = None
            /\ runs'[k].auto_summary = None
            /\ moments' = moments
            /\ note_writes' = note_writes

\* C27 (as claimed): an enrichment job is submitted only for a MANUAL moment
\* that was created with a capture; an execution for a moment without image
\* calls no summarizer and leaves the note unchanged.
C27_EnrichmentTrigger ==
    [][/\ JobSubmitted =>
            LET m == queue'[Len(queue')].moment_id
            IN  /\ m \in DOMAIN moments
                /\ moments[m].trigger = "MANUAL"
                /\ moments[m].screenshot_image
       /\ NoImageRunIsIdle]_vars


\* the handler of connection c takes a step at a Redis command while the
\* Redis server does not answer
OutageStep(c) ==
    /\ ~redis_up
    /\ at_redis_command(c)
    /\ conns'[c] # conns[c]

\* C28 (as claimed): when the presence store does not answer, the presence
\* query answers false instead of raising, and the attach or detach of the
\* connection goes on: the handler moves to its next position, so that the
\* connection gets its "connected" snapshot and a detaching connection is
\* removed from its group.
C28_PresenceFailureDegrades ==
    [][\A c \in ConnIds :
          OutageStep(c) =>
              /\ conns'[c].pc # "failed"
              /\ conns[c].pc \in {"marked", "unmarked"} => ~conns'[c].is_online
              /\ (conns[c].pc = "accepted" /\ conns[c].role = "student") =>
                     ~conns'[c].teacher_online]_vars


\* the tables that the commands write
Tables == <<questions, likes, feedback, moments>>

\* a request ends with the server error of a group_send that raised
BroadcastFailed ==
    \/ \E r \in Reqs : qreq[r].pc \in SendPositions /\ qreq'[r].resp = 500
    \/ \E r \in FeedbackReqs : freq[r].pc = "send" /\ freq'[r].resp = 500
    \/ \E r \in MarkReqs : mreq[r].pc = "send" /\ mreq'[r].resp = 500

\* C29: a group_send that fails after the write of its command leaves every
\* stored record as it was written: the failing step changes no table, and
\* the row of the failed request (question, forward, like, feedback event,
\* moment) is in its table afterwards. A group_send to a group to which
\* nobody is attached completes (the request goes on to its next statement)
\* and no connection gets a frame.
C29_BroadcastFailureKeepsWrite ==
    /\ [][BroadcastFailed => Tables' = Tables]_vars
    /\ [](/\ \A r \in Reqs :
               (qreq[r].pc = "done" /\ qreq[r].resp = 500) =>
                   /\ qreq[r].question_id \in DOMAIN questions
                   /\ qreq[r].op = "forward" =>
                          /\ questions[qreq[r].question_id].forwarded_to_professor
                          /\ questions[qreq[r].question_id].status = "FORWARDED"
                   /\ qreq[r].op = "like" =>
                          \E i \in DOMAIN likes :
                              /\ likes[i].question = qreq[r].question_id
                              /\ likes[i].device_hash =
                                     get_device_hash(qreq[r].header)
          /\ \A r \in FeedbackReqs :
               (freq[r].pc = "done" /\ freq[r].resp = 500) =>
                   Cardinality(FeedbackStoredFor(r)) = 1
          /\ \A r \in MarkReqs :
               (mreq[r].pc = "done" /\ mreq[r].resp = 500) =>
                   /\ mreq[r].moment \in DOMAIN moments
                   /\ moments[mreq[r].moment].trigger = "MANUAL"
          /\ groups = {} => \A c \in ConnIds : frames[c] = <<>>)
    /\ [][\A g \in GroupNames :
             (Len(hsent'[g]) > Len(hsent[g]) /\
              ~\E c \in ConnIds : <<g, c>> \in groups) =>
                 /\ frames' = frames
                 /\ \A r \in Reqs : qreq'[r].resp # 500
                 /\ \A r \in FeedbackReqs : freq'[r].resp # 500]_vars

\* the like of device d1 for question 1 is stored although the group_send
\* of its request failed
C29_Witness ==
    \E r \in Reqs :
        /\ qreq[r].op = "like" /\ qreq[r].header = "d1"
        /\ qreq[r].pc = "done" /\ qreq[r].resp = 500
        /\ Len(likes) = 1
        /\ likes[1].question = qreq[r].question_id
        /\ likes[1].device_hash = "d1"


\* C30 (as claimed, for the two views): a submit-question-text or
\* request-ai-answer that has reached its collaborator call eventually
\* returns, even if the collaborator never responds.
C30_BoundedCollaboratorCalls ==
    \A r \in Reqs :
        (qreq[r].pc \in {"text_save", "ai_save"}) ~>
            (qreq[r].pc \in {"done", "gone"})


\* the teacher_presence events sent to the student group of session s
PresenceLog(s) ==
    SelectSeq(hsent[get_session_group_name(s, "student")],
              LAMBDA m : m.type = "teacher_presence")

\* C31 (as claimed): once no attach or detach is in progress, the last
\* teacher_presence event sent to the student group of a session says
\* whether the presence set of the session is non-empty.
C31_PresenceConverges ==
    \A s \in SessionArgs :
        (HubQuiet /\ PresenceLog(s) # <<>>) =>
            PresenceLog(s)[Len(PresenceLog(s))].is_online = (teachers[s] # {})


\* the save of forward request r
ForwardSaves(r) ==
    qreq[r].pc = "fwd_save" /\ qreq'[r].pc = "fwd_send_teacher"

\* C32 (as claimed): the save of a forward request replaces no field that the
\* request did not set itself: the stored texts and the stored AI answer of
\* the question, written by requests that completed since the forward read
\* the row, are still stored after it (the cleaned text unless the forward
\* carries an override).
C32_ForwardKeepsConcurrentWrites ==
    [][\A r \in Reqs :
          ForwardSaves(r) =>
              LET q == qreq[r].question_id
              IN  /\ questions'[q].ai_answer = questions[q].ai_answer
                  /\ questions'[q].original_text = questions[q].original_text
                  /\ ~truthy(qreq[r].override_cleaned) =>
                         questions'[q].cleaned_text = questions[q].cleaned_text]_vars


\* C33 (as claimed): in every reachable state the forwarded flag of every
\* question is true exactly when its status is FORWARDED.
C33_ForwardedFlagAgreesWithStatus ==
    \A q \in DOMAIN questions :
        questions[q].forwarded_to_professor <=> questions[q].status = "FORWARDED"


\* C34 (as claimed): when the note of the moment was changed by another
\* writer between the load of an execution of the task and its save, the
\* execution does not replace the newer note.
C34_EnrichmentKeepsNewerNote ==
    [][\A k \in RunIds :
          RunReturns(k) =>
              (moments[MomentOf(k)].note # runs[k].note =>
                   moments'[MomentOf(k)].note = moments[MomentOf(k)].note)]_vars


\* the question_like_update messages for question q in the log of group g
LikeUpdateLog(g, q) ==
    SelectSeq(hsent[g], LAMBDA m : /\ m.type = "question_like_update"
                                   /\ m.question_id = q)

\* every question_like_update carries a count between 1 and the number of
\* Like rows of its question (rows are never deleted, so the number stored
\* when it was sent is not above the number stored now)
LikeCountsInRange ==
    \A i \in DOMAIN sent :
        sent[i].type = "question_like_update" =>
            /\ sent[i].like_count >= 1
            /\ sent[i].like_count <= likes_count(sent[i].question_id)

\* C35 (as claimed): every question_like_update carries a count between 1 and
\* the number of stored Like rows of its question, and once no request is in
\* progress the last question_like_update of each group carries the number of
\* Like rows stored for the question.
C35_LikeCountConverges ==
    /\ LikeCountsInRange
    /\ (\A r \in Reqs : ~InFlight(r)) =>
           \A g \in GroupNames, q \in DOMAIN questions :
               LikeUpdateLog(g, q) # <<>> =>
                   LikeUpdateLog(g, q)[Len(LikeUpdateLog(g, q))].like_count
                       = likes_count(q)


\* feedback request r arrives in this step
FeedbackArrives(r) == freq[r].pc = "idle" /\ freq'[r].pc # "idle"

\* feedback request r is rejected in this step
FeedbackRejected(r) ==
    /\ FeedbackArrives(r)
    /\ freq'[r].pc = "done"
    /\ freq'[r].resp \in {400, 404, 429}

\* feedback request r is well-formed and arrives outside the debounce window
\* of its device: the device has no stored event in the session, or its most
\* recent one is 3 or more seconds old
OutsideWindow(r) ==
    LET s == freq'[r].session_id
        d == get_device_hash(freq'[r].header)
    IN  /\ FeedbackArrives(r)
        /\ session_found(s)
        /\ freq'[r].feedback_type \in FeedbackTypes
        /\ EventsOf(s, d) # {} => now - LatestStamp(s, d) >= DebounceWindow

\* C36: a feedback submission that is rejected (429, 400 or 404) stores no
\* Feedback Event and sends no message, and a rejection is the end of the
\* request; so a well-formed submission that arrives 3 or more seconds after
\* the device's last accepted event goes on to be stored, however many
\* submissions were rejected in between.
C36_RejectedFeedbackLeavesNoTrace ==
    [][\A r \in FeedbackReqs :
          /\ FeedbackRejected(r) =>
                 /\ feedback' = feedback
                 /\ fsent' = fsent
                 /\ hsent' = hsent
          /\ (freq[r].pc = "done" /\ freq[r].resp # 200) =>
                 freq'[r].pc \in {"done", "gone"}
          /\ OutsideWindow(r) => freq'[r].pc = "create"]_vars

\* the first submission was accepted, the second was rejected inside the
\* window and left no event, and the third, 3 seconds after the first, was
\* accepted and stored
C36_Witness ==
    /\ Len(feedback) = 2
    /\ feedback[1].req = 1 /\ feedback[2].req = 3
    /\ feedback[1].session = feedback[2].session
    /\ feedback[1].device_hash = feedback[2].device_hash
    /\ feedback[2].created_at = feedback[1].created_at + DebounceWindow
    /\ freq[2].pc = "gone"
    /\ freq[3].pc = "done" /\ freq[3].resp = 200
    /\ Len(fsent) = 2


\* the consumer of connection c takes a message of its group in this step
Delivers(c) == dispatching(c) /\ cursor'[c] = cursor[c] + 1

\* the group (S, R) that message m was sent for: teacher_presence goes to the
\* students of the session of the teacher connection that sent it
SentFor(m) ==
    IF m.type = "teacher_presence"
    THEN <<"session", conns[m.conn].session_id, "student">>
    ELSE m.group

TeacherOnly == {"feedback_message", "question_intent"}

StudentOnly == {"important_message", "question_capture", "teacher_presence"}

\* C37: a message sent for group (S, R) is handed only to connections that
\* attached under exactly (S, R): never to a connection of another session,
\* feedback and question_intent never to a student connection, important,
\* question_capture and teacher_presence never to a teacher connection; and
\* the frames a connection has got agree with its role.
C37_GroupIsolation ==
    /\ [][\A c \in ConnIds :
            Delivers(c) =>
                /\ SentFor(group_message(c)) =
                       <<"session", conns[c].session_id, conns[c].role>>
                /\ group_message(c).type \in TeacherOnly =>
                       conns[c].role = "teacher"
                /\ group_message(c).type \in StudentOnly =>
                       conns[c].role = "student"]_vars
    /\ [](\A c \in ConnIds : \A i \in DOMAIN frames[c] :
            /\ frames[c][i].event \in {"feedback", "question_intent"} =>
                   conns[c].role = "teacher"
            /\ frames[c][i].event \in
                   {"important", "question_capture", "teacher_presence"} =>
                   conns[c].role = "student")

\* a teacher and a student are attached to one session: the teacher has got
\* a feedback event, and the student has got a teacher_presence event, has
\* taken every message of its own group and has no feedback event
C37_Witness ==
    \E c, d \in ConnIds :
        /\ conns[c].pc = "open" /\ conns[d].pc = "open"
        /\ conns[c].role = "teacher" /\ conns[d].role = "student"
        /\ conns[c].session_id = conns[d].session_id
        /\ \E i \in DOMAIN frames[c] : frames[c][i].event = "feedback"
        /\ \A i \in DOMAIN frames[d] : frames[d][i].event # "feedback"
        /\ cursor[d] = Len(hsent[group_name(d)])
        /\ \E i \in DOMAIN frames[d] : frames[d][i].event = "teacher_presence"


\* request r of the question views arrives in this step without the
\* X-Device-Hash header
HeaderlessArrival(r) ==
    /\ qreq[r].pc = "idle"
    /\ qreq'[r].pc # "idle"
    /\ qreq'[r].header = NoHeader

\* C38: a request without the X-Device-Hash header acts as the device
\* "anonymous": the question, the like and the feedback event it stores carry
\* that identifier, so that a header-less request passes the ownership test
\* of a question that another header-less request started, a header-less
\* like of a question that has an "anonymous" like stores and sends nothing,
\* and a header-less feedback inside the window of an "anonymous" event of
\* the session gets 429.
C38_DefaultDeviceIdentity ==
    /\ [][\A r \in Reqs :
            /\ (HeaderlessArrival(r) /\ Len(questions') > Len(questions)) =>
                   questions'[Len(questions')].device_hash = "anonymous"
            /\ (/\ HeaderlessArrival(r)
                /\ qreq'[r].op \in {"text", "ai"}
                /\ qreq'[r].question_id \in DOMAIN questions
                /\ questions[qreq'[r].question_id].device_hash = "anonymous") =>
                   qreq'[r].resp # 403
            /\ (/\ HeaderlessArrival(r)
                /\ qreq'[r].op = "like"
                /\ LikeRowsOf(qreq'[r].question_id, "anonymous") # {}) =>
                   qreq'[r].pc = "done" /\ qreq'[r].resp = 200
            /\ (/\ qreq[r].header = NoHeader
                /\ qreq[r].pc = "like_create"
                /\ Len(likes') > Len(likes)) =>
                   /\ likes'[Len(likes')].device_hash = "anonymous"
                   /\ LikeRowsOf(qreq[r].question_id, "anonymous") = {}]_vars
    /\ [][\A r \in FeedbackReqs :
            /\ (/\ FeedbackArrives(r)
                /\ freq'[r].header = NoHeader
                /\ session_found(freq'[r].session_id)
                /\ freq'[r].feedback_type \in FeedbackTypes
                /\ EventsOf(freq'[r].session_id, "anonymous") # {}
                /\ now - LatestStamp(freq'[r].session_id, "anonymous")
                      < DebounceWindow) =>
                   freq'[r].pc = "done" /\ freq'[r].resp = 429
            /\ (/\ freq[r].header = NoHeader
                /\ freq[r].pc = "create"
                /\ Len(feedback') > Len(feedback)) =>
                   feedback'[Len(feedback')].device_hash = "anonymous"]_vars

\* a header-less request has submitted the text of a question that an
\* earlier header-less request started
C38_Witness ==
    \E r \in Reqs :
        /\ qreq[r].pc = "done" /\ qreq[r].resp = 200
        /\ qreq[r].op = "text" /\ qreq[r].header = NoHeader
        /\ qreq[r].question_id \in DOMAIN questions
        /\ qreq[r].question_id = Len(questions)
        /\ \E p \in Reqs : p # r /\ qreq[p].pc = "gone"
        /\ questions[qreq[r].question_id].device_hash = "anonymous"
        /\ questions[qreq[r].question_id].status = "TEXT_SUBMITTED"


\* request r arrives in this step as a request-ai-answer of the owner, or as
\* a forward-question of anybody, for a stored question
AnswerOrForwardArrives(r) ==
    /\ qreq[r].pc = "idle"
    /\ qreq'[r].pc # "idle"
    /\ qreq'[r].question_id \in DOMAIN questions
    /\ \/ qreq'[r].op = "forward"
       \/ /\ qreq'[r].op = "ai"
          /\ questions[qreq'[r].question_id].device_hash =
                 get_device_hash(qreq'[r].header)

\* such a request is accepted whatever the status of the question, and its
\* save leaves the question AI_ANSWERED or FORWARDED
NoPredecessorNeeded ==
    \A r \in Reqs :
        /\ AnswerOrForwardArrives(r) =>
               qreq'[r].pc = IF qreq'[r].op = "ai" THEN "ai_save" ELSE "fwd_save"
        /\ (qreq[r].pc = "ai_save" /\ qreq'[r].pc = "done") =>
               questions'[qreq[r].question_id].status = "AI_ANSWERED"
        /\ ForwardSaves(r) =>
               questions'[qreq[r].question_id].status = "FORWARDED"
        /\ (qreq[r].op = "forward" /\ Len(sent') > Len(sent)) =>
               /\ sent'[Len(sent')].type = "new_question"
               /\ sent'[Len(sent')].cleaned_text = qreq[r].cleaned_for_answer

\* forward request r arrives in this step for a question that is INTENT
ForwardFromIntent(r) ==
    /\ AnswerOrForwardArrives(r)
    /\ qreq'[r].op = "forward"
    /\ questions[qreq'[r].question_id].status = "INTENT"

\* C39 (as claimed): request-ai-answer and forward-question are accepted
\* whatever the status of the question, and a forward of a question that is
\* INTENT sends new_question with an empty cleaned text.
C39_NoPredecessorPrecondition ==
    [][/\ NoPredecessorNeeded
       /\ \A r \in Reqs :
              ForwardFromIntent(r) => qreq'[r].cleaned_for_answer = Empty]_vars

\* C39 (amended): request-ai-answer and forward-question are accepted
\* whatever the status of the question, and a forward of a question that is
\* INTENT sends new_question with an empty cleaned text unless the request
\* carries an override text, which is then sent stripped.
C39_NoPredecessorPreconditionAmended ==
    [][/\ NoPredecessorNeeded
       /\ \A r \in Reqs :
              ForwardFromIntent(r) =>
                  qreq'[r].cleaned_for_answer =
                      IF qreq'[r].override_cleaned # Empty
                      THEN strip(qreq'[r].override_cleaned)
                      ELSE Empty]_vars

\* a question went from INTENT to FORWARDED without text or answer, by a
\* forward without an override, and both groups got new_question with an
\* empty cleaned text
C39_Witness ==
    \E r \in Reqs :
        /\ qreq[r].pc = "done" /\ qreq[r].resp = 200
        /\ qreq[r].op = "forward" /\ qreq[r].override_cleaned = Empty
        /\ questions[qreq[r].question_id].status = "FORWARDED"
        /\ questions[qreq[r].question_id].original_text = Empty
        /\ questions[qreq[r].question_id].ai_answer = Empty
        /\ Len(sent) = 2
        /\ \A i \in DOMAIN sent : /\ sent[i].type = "new_question"
                                  /\ sent[i].req = r
                                  /\ sent[i].cleaned_text = Empty

=============================================================================
